---- MODULE Spec2Model ----
(***************************************************************************)
(* Model of the SpMV benchmark programs csrspmv (src/csrspmv.c) and        *)
(* ellspmv (src/ellspmv.c).                                                *)
(*                                                                         *)
(* Build configuration modelled: _OPENMP defined, the portable kernels     *)
(* (the #else branch of __ARM_FEATURE_SVE), no PAPI, no A64FX hooks.       *)
(*                                                                         *)
(* C arrays are functions with domain 0..n-1.  Floating-point values are   *)
(* integers (exact arithmetic).  A value read from memory that the program *)
(* never initialised is Indeterminate, and arithmetic on it stays          *)
(* Indeterminate.                                                          *)
(***************************************************************************)
EXTENDS Integers, Sequences, FiniteSets, TLC

VARIABLES
    prog,               \* "csrspmv" or "ellspmv": which main() runs
    pc,                 \* position of main()
    symmetry,           \* "general" or "symmetric" (Matrix Market header)
    num_rows, num_columns, num_nonzeros,
    rowidx, colidx, a,  \* COO arrays as read from the file (1-based indices)
    separate_diagonal,  \* args.separate_diagonal
    sort_rows,          \* args.sort_rows
    partition,          \* args.partition: "rows" or "nonzeros"
    precompute_partition,   \* args.precompute_partition
    rows_per_thread,    \* args.rows_per_thread as a sequence, << >> when NULL
    nthreads,           \* omp_get_num_threads()
    xfile, yfile,       \* vectors given by args.xpath / args.ypath, << >> when NULL
    rowptr,             \* csrrowptr (csrspmv) or rowptr (ellspmv)
    csrsize, rowsizemin, rowsizemax, diagsize,
    startrows, endrows, \* << >> when NULL
    csrcolidx, csra, csrad,
    ellsize, rowsize, ellcolidx, ella, ellad,
    stray,              \* ell_from_coo stored an entry of row i outside row i's slots
    x, y,
    y0,                 \* y as it was before the first kernel invocation
    repeat,             \* the loop counter: kernel invocations completed
    tpc,                \* per-thread position inside csrgemvnz
    err,                \* main's err: the last return code, the loops' shared error code
    oob,                \* a conversion accessed an array outside its allocation
    warmup,             \* iterations of the warmup loop completed
    args_warmup,        \* args.warmup and args.repeat where a specification
    args_repeat,        \* fixes them, AnyCount where a loop may end at any count
    thr                 \* per-thread position and locals in the two loops of main

vars == << prog, pc, symmetry, num_rows, num_columns, num_nonzeros, rowidx,
           colidx, a, separate_diagonal, sort_rows, partition,
           precompute_partition, rows_per_thread, nthreads,
           xfile, yfile, rowptr, csrsize, rowsizemin, rowsizemax, diagsize,
           startrows, endrows, csrcolidx, csra, csrad, ellsize, rowsize,
           ellcolidx, ella, ellad, stray, x, y, y0, repeat, tpc,
           err, oob, warmup, args_warmup, args_repeat, thr >>

----------------------------------------------------------------------------
(* Bounds of the model *)

MaxDim == 2
MaxNnz == 3
MaxThreads == 2
MaxRepeat == 2

----------------------------------------------------------------------------
(* Values and arrays *)

Indeterminate == 0 - 1000000

\* the value of args_warmup and args_repeat where the option is left open
AnyCount == 0 - 1

Add(u, v) == IF u = Indeterminate \/ v = Indeterminate THEN Indeterminate ELSE u + v

Mul(u, v) == IF u = Indeterminate \/ v = Indeterminate THEN Indeterminate ELSE u * v

Arr(n, v) == [i \in 0..(n-1) |-> v]

\* a read of array arr at index i; outside the allocation the value is indeterminate
At(arr, i) == IF i \in DOMAIN arr THEN arr[i] ELSE Indeterminate

\* e, with v evaluated first: keeps TLC's evaluation of a loop of n
\* iterations from nesting the n loop states inside one another
Strict(v, e) == IF v = v THEN e ELSE e

Min(m, n) == IF m < n THEN m ELSE n

----------------------------------------------------------------------------
(* csr_from_coo_size *)

\* which of the four branches csr_from_coo_size and csr_from_coo take
ConversionPath(sym, nr, nc, sepdiag) ==
    IF nr = nc /\ sym = "symmetric" /\ sepdiag THEN 1
    ELSE IF nr = nc /\ sym = "symmetric" /\ ~sepdiag THEN 2
    ELSE IF nr = nc /\ sepdiag THEN 3
    ELSE 4

Incr(rp, i) == [rp EXCEPT ![i] = @ + 1]

\* the counting loop counting each entry of a symmetric matrix once
CountEntryOnce(path, rp, r, c) ==
    CASE path = 1 -> IF r # c THEN Incr(rp, r) ELSE rp
      [] path = 2 -> Incr(rp, r)
      [] path = 3 -> IF r # c THEN Incr(rp, r) ELSE rp
      [] OTHER    -> Incr(rp, r)

\* one iteration of the counting loop for the entry (r, c), 1-based
CountEntry(path, rp, r, c) ==
    CASE path = 1 -> IF r # c THEN Incr(Incr(rp, r), c) ELSE rp
      [] path = 2 -> IF r # c THEN Incr(Incr(rp, r), c) ELSE Incr(rp, r)
      [] path = 3 -> IF r # c THEN Incr(rp, r) ELSE rp
      [] OTHER    -> Incr(rp, r)

RECURSIVE CountLoop(_, _, _, _, _, _)
CountLoop(path, nnz, ri, ci, rp, k) ==
    IF k >= nnz THEN rp
    ELSE Strict(rp, CountLoop(path, nnz, ri, ci,
                              CountEntry(path, rp, ri[k], ci[k]), k + 1))

\* the loop "for (i = 1; i <= num_rows; i++)": minimum, maximum and prefix sum
RECURSIVE PrefixLoop(_, _, _)
PrefixLoop(s, nr, i) ==
    IF i > nr THEN s
    ELSE PrefixLoop(
            [rowmin |-> IF s.rowmin <= s.rowptr[i] THEN s.rowmin ELSE s.rowptr[i],
             rowmax |-> IF s.rowmax >= s.rowptr[i] THEN s.rowmax ELSE s.rowptr[i],
             rowptr |-> [s.rowptr EXCEPT ![i] = @ + s.rowptr[i-1]]],
            nr, i + 1)

SizeDiagsize(nr, nc, sepdiag) == IF nr = nc /\ sepdiag THEN nr ELSE 0

csr_from_coo_size(sym, nr, nc, nnz, ri, ci, sepdiag) ==
    LET path   == ConversionPath(sym, nr, nc, sepdiag)
        counts == CountLoop(path, nnz, ri, ci, Arr(nr + 1, 0), 0)
        s      == PrefixLoop([rowmin |-> IF nr > 0 THEN counts[1] ELSE 0,
                              rowmax |-> 0, rowptr |-> counts], nr, 1)
        bump   == IF nr = nc /\ sepdiag THEN 1 ELSE 0
    IN  [rowptr     |-> s.rowptr,
         csrsize    |-> s.rowptr[nr],
         rowsizemin |-> s.rowmin + bump,
         rowsizemax |-> s.rowmax + bump,
         diagsize   |-> SizeDiagsize(nr, nc, sepdiag)]

----------------------------------------------------------------------------
(* rowsort *)

threshold == 16

\* a store to array arr at index i (a store outside the allocation is dropped)
Put(arr, i, v) == IF i \in DOMAIN arr THEN [arr EXCEPT ![i] = v] ELSE arr

\* while (l >= lo && colidx[l] > j) { colidx[l+1] = colidx[l]; a[l+1] = a[l]; l--; }
RECURSIVE InsertShift(_, _, _)
InsertShift(s, lo, j) ==
    IF s.l >= lo /\ At(s.colidx, s.l) > j
    THEN InsertShift([colidx |-> Put(s.colidx, s.l + 1, At(s.colidx, s.l)),
                      a      |-> Put(s.a, s.l + 1, At(s.a, s.l)),
                      l      |-> s.l - 1], lo, j)
    ELSE s

\* for (k = first; k < hi; k++) insert element k into the sorted run lo..k-1
RECURSIVE InsertionSort(_, _, _, _)
InsertionSort(s, lo, k, hi) ==
    IF k >= hi THEN s
    ELSE LET j == At(s.colidx, k)
             b == At(s.a, k)
             t == InsertShift([colidx |-> s.colidx, a |-> s.a, l |-> k - 1], lo, j)
         IN  Strict(t, InsertionSort([colidx |-> Put(t.colidx, t.l + 1, j),
                                      a      |-> Put(t.a, t.l + 1, b)],
                                     lo, k + 1, hi))

\* first loop of rowsort: rows of at most 'threshold' entries
RECURSIVE SortShortRows(_, _, _, _)
SortShortRows(s, nr, rp, i) ==
    IF i >= nr THEN s
    ELSE IF rp[i+1] - rp[i] > threshold THEN SortShortRows(s, nr, rp, i + 1)
    ELSE SortShortRows(InsertionSort(s, rp[i], rp[i] + 1, rp[i+1]), nr, rp, i + 1)

\* the block loop stopping before a last block of fewer than p entries
RECURSIVE SortFullBlocks(_, _, _, _, _)
SortFullBlocks(s, base, rowlen, p, q) ==
    IF q + p > rowlen THEN s
    ELSE Strict(s, SortFullBlocks(InsertionSort(s, base + q, base + q + 1, base + q + p),
                                  base, rowlen, p, q + p))

\* for (q = 0; q < rowlen-1; q += p) insertion sort of the block q..min(q+p,rowlen)-1
RECURSIVE SortBlocks(_, _, _, _, _)
SortBlocks(s, base, rowlen, p, q) ==
    IF q >= rowlen - 1 THEN s
    ELSE LET r == IF q + p < rowlen THEN q + p ELSE rowlen
         IN  Strict(s, SortBlocks(InsertionSort(s, base + q, base + q + 1, base + r),
                                  base, rowlen, p, q + p))

\* the three while loops that merge tmp[v..middle) and tmp[w..right) into the row
RECURSIVE MergeRuns(_, _, _, _, _, _, _, _)
MergeRuns(s, tmp, base, u, v, middle, w, right) ==
    Strict(s,
    IF v < middle /\ w < right
    THEN IF tmp.colidx[v] < tmp.colidx[w]
         THEN MergeRuns([colidx |-> Put(s.colidx, base + u, tmp.colidx[v]),
                         a      |-> Put(s.a, base + u, tmp.a[v])],
                        tmp, base, u + 1, v + 1, middle, w, right)
         ELSE MergeRuns([colidx |-> Put(s.colidx, base + u, tmp.colidx[w]),
                         a      |-> Put(s.a, base + u, tmp.a[w])],
                        tmp, base, u + 1, v, middle, w + 1, right)
    ELSE IF v < middle
    THEN MergeRuns([colidx |-> Put(s.colidx, base + u, tmp.colidx[v]),
                    a      |-> Put(s.a, base + u, tmp.a[v])],
                   tmp, base, u + 1, v + 1, middle, w, right)
    ELSE IF w < right
    THEN MergeRuns([colidx |-> Put(s.colidx, base + u, tmp.colidx[w]),
                    a      |-> Put(s.a, base + u, tmp.a[w])],
                   tmp, base, u + 1, v, middle, w + 1, right)
    ELSE s)

\* for (q = 0; q < rowlen-1; q += 2*p) merge two neighbouring runs of length p
RECURSIVE MergePass(_, _, _, _, _, _)
MergePass(s, tmp, base, rowlen, p, q) ==
    IF q >= rowlen - 1 THEN s
    ELSE LET middle == IF q + p < rowlen THEN q + p ELSE rowlen
             right  == IF q + 2*p < rowlen THEN q + 2*p ELSE rowlen
         IN  Strict(s, MergePass(MergeRuns(s, tmp, base, q, q, middle, middle, right),
                                 tmp, base, rowlen, p, q + 2*p))

\* for (; p < rowlen; p *= 2): copy the row to the temporaries, then merge
RECURSIVE MergeLoop(_, _, _, _)
MergeLoop(s, base, rowlen, p) ==
    IF p >= rowlen THEN s
    ELSE LET tmp == [colidx |-> [k \in 0..(rowlen-1) |-> At(s.colidx, base + k)],
                     a      |-> [k \in 0..(rowlen-1) |-> At(s.a, base + k)]]
         IN  Strict(tmp, MergeLoop(MergePass(s, tmp, base, rowlen, p, 0),
                                   base, rowlen, 2*p))

\* second loop of rowsort: rows of more than 'threshold' entries
RECURSIVE SortLongRows(_, _, _, _)
SortLongRows(s, nr, rp, i) ==
    IF i >= nr THEN s
    ELSE IF rp[i+1] - rp[i] <= threshold THEN SortLongRows(s, nr, rp, i + 1)
    ELSE LET rowlen == rp[i+1] - rp[i]
             blocks == SortBlocks(s, rp[i], rowlen, threshold, 0)
         IN  SortLongRows(MergeLoop(blocks, rp[i], rowlen, threshold), nr, rp, i + 1)

rowsort(nr, rp, rsmax, ci, av) ==
    LET short == SortShortRows([colidx |-> ci, a |-> av], nr, rp, 0)
    IN  IF rsmax <= threshold THEN short
        ELSE SortLongRows(short, nr, rp, 0)

----------------------------------------------------------------------------
(* csr_from_coo *)

\* csrcolidx[rowptr[i]] = j; csra[rowptr[i]] = v; rowptr[i]++;
Scatter(s, i, j, v) ==
    [s EXCEPT !.csrcolidx = Put(s.csrcolidx, s.rowptr[i], j),
              !.csra      = Put(s.csra, s.rowptr[i], v),
              !.rowptr    = Incr(s.rowptr, i)]

\* the diagonal store as an assignment: csrad[i] = v;
DiagAssign(s, i, v) == [s EXCEPT !.csrad = Put(s.csrad, i, v)]

\* csrad[i] += v;
DiagAccumulate(s, i, v) == [s EXCEPT !.csrad = Put(s.csrad, i, Add(At(s.csrad, i), v))]

\* the fill loop storing each entry of a symmetric matrix once
FillEntryNoMirror(path, s, r, c, v) ==
    CASE path = 1 -> IF r = c THEN DiagAccumulate(s, r - 1, v)
                     ELSE Scatter(s, r - 1, c - 1, v)
      [] path = 2 -> Scatter(s, r - 1, c - 1, v)
      [] OTHER    -> IF r = c THEN DiagAccumulate(s, r - 1, v)
                     ELSE Scatter(s, r - 1, c - 1, v)

\* one iteration of the fill loop of branch 1, 2 or 3 for the entry (r, c, v)
FillEntry(path, s, r, c, v) ==
    CASE path = 1 -> IF r = c THEN DiagAccumulate(s, r - 1, v)
                     ELSE Scatter(Scatter(s, r - 1, c - 1, v), c - 1, r - 1, v)
      [] path = 2 -> IF r # c
                     THEN Scatter(Scatter(s, r - 1, c - 1, v), c - 1, r - 1, v)
                     ELSE Scatter(s, r - 1, c - 1, v)
      [] OTHER    -> IF r = c THEN DiagAccumulate(s, r - 1, v)
                     ELSE Scatter(s, r - 1, c - 1, v)

RECURSIVE FillLoop(_, _, _, _, _, _, _)
FillLoop(path, nnz, ri, ci, av, s, k) ==
    IF k >= nnz THEN s
    ELSE Strict(s, FillLoop(path, nnz, ri, ci, av,
                            FillEntry(path, s, ri[k], ci[k], av[k]), k + 1))

\* the fill without the loop that shifts rowptr back
ShiftOmitted(rp, nr) == rp

\* for (i = num_rows; i > 0; i--) rowptr[i] = rowptr[i-1];  rowptr[0] = 0;
ShiftBack(rp, nr) == [i \in 0..nr |-> IF i = 0 THEN 0 ELSE rp[i-1]]

\* branch 4: perm[rowptr[i]++] = k for every entry k
RECURSIVE PermLoop(_, _, _, _)
PermLoop(nnz, ri, s, k) ==
    IF k >= nnz THEN s
    ELSE Strict(s, PermLoop(nnz, ri,
                            [perm   |-> Put(s.perm, s.rowptr[ri[k] - 1], k),
                             rowptr |-> Incr(s.rowptr, ri[k] - 1)], k + 1))

\* Gather taking the entries of each row from perm in reverse
GatherRowReversed(nnz, ci, av, perm, s) ==
    LET src(k) == LET i == CHOOSE r \in 0..(Cardinality(DOMAIN s.rowptr) - 2) :
                               s.rowptr[r] <= k /\ k < s.rowptr[r + 1]
                  IN  perm[s.rowptr[i] + s.rowptr[i + 1] - 1 - k]
    IN  [s EXCEPT !.csrcolidx = [k \in DOMAIN s.csrcolidx |->
                                    IF k < nnz THEN ci[src(k)] - 1 ELSE s.csrcolidx[k]],
                  !.csra      = [k \in DOMAIN s.csra |->
                                    IF k < nnz THEN av[src(k)] ELSE s.csra[k]]]

\* Gather with the column index left 1-based
GatherOneBased(nnz, ci, av, perm, s) ==
    [s EXCEPT !.csrcolidx = [k \in DOMAIN s.csrcolidx |->
                                IF k < nnz THEN ci[perm[k]] ELSE s.csrcolidx[k]],
              !.csra      = [k \in DOMAIN s.csra |->
                                IF k < nnz THEN av[perm[k]] ELSE s.csra[k]]]

\* branch 4: csrcolidx[k] = colidx[perm[k]]-1; csra[k] = a[perm[k]];
Gather(nnz, ci, av, perm, s) ==
    [s EXCEPT !.csrcolidx = [k \in DOMAIN s.csrcolidx |->
                                IF k < nnz THEN ci[perm[k]] - 1 ELSE s.csrcolidx[k]],
              !.csra      = [k \in DOMAIN s.csra |->
                                IF k < nnz THEN av[perm[k]] ELSE s.csra[k]]]

csr_from_coo(sym, nr, nc, nnz, ri, ci, av, rp, rsmax, cci, ca, cad, sepdiag, sort) ==
    LET path == ConversionPath(sym, nr, nc, sepdiag)
        s0   == [rowptr |-> rp, csrcolidx |-> cci, csra |-> ca, csrad |-> cad]
        filled ==
            IF path \in {1, 2, 3}
            THEN LET s == FillLoop(path, nnz, ri, ci, av, s0, 0)
                 IN  [s EXCEPT !.rowptr = ShiftBack(s.rowptr, nr)]
            ELSE LET t == PermLoop(nnz, ri, [perm |-> Arr(nnz, 0), rowptr |-> rp], 0)
                 IN  Gather(nnz, ci, av, t.perm,
                            [s0 EXCEPT !.rowptr = ShiftBack(t.rowptr, nr)])
        sorted == rowsort(nr, filled.rowptr, rsmax, filled.csrcolidx, filled.csra)
    IN  IF sort
        THEN [filled EXCEPT !.csrcolidx = sorted.colidx, !.csra = sorted.a]
        ELSE filled

----------------------------------------------------------------------------
(* The CSR kernels *)

\* for (k = k0; k < hi; k++) yi += a[k] * x[colidx[k]];
RECURSIVE DotLoop(_, _, _, _, _, _)
DotLoop(av, ci, xv, yi, k, hi) ==
    IF k >= hi THEN yi
    ELSE DotLoop(av, ci, xv, Add(yi, Mul(At(av, k), At(xv, At(ci, k)))), k + 1, hi)

\* the store of a kernel that overwrites y[i]
Overwrite(old, yi) == yi

\* y[i] += yi;
Accumulate(old, yi) == Add(old, yi)

\* y[i] += ad[i]*x[i] + yi;
AccumulateDiag(old, adi, xi, yi) == Add(old, Add(Mul(adi, xi), yi))

csrgemv(nr, yv, xv, rp, ci, av) ==
    [i \in 0..(nr-1) |-> Accumulate(yv[i], DotLoop(av, ci, xv, 0, rp[i], rp[i+1]))]

csrgemvsd(nr, yv, xv, rp, ci, av, ad) ==
    [i \in 0..(nr-1) |->
        AccumulateDiag(yv[i], At(ad, i), At(xv, i),
                       DotLoop(av, ci, xv, 0, rp[i], rp[i+1]))]

\* the rows startrows[p]..endrows[p]-1 of thread p in csrgemvrp
RpThread(yv, xv, rp, ci, av, dsz, ad, srows, erows, p) ==
    [i \in DOMAIN yv |->
        IF srows[p] <= i /\ i < erows[p]
        THEN IF dsz > 0
             THEN AccumulateDiag(yv[i], At(ad, i), At(xv, i),
                                 DotLoop(av, ci, xv, 0, rp[i], rp[i+1]))
             ELSE Accumulate(yv[i], DotLoop(av, ci, xv, 0, rp[i], rp[i+1]))
        ELSE yv[i]]

\* all threads of the team, up to the barrier that ends csrgemvrp
RECURSIVE RpTeam(_, _, _, _, _, _, _, _, _, _, _)
RpTeam(yv, xv, rp, ci, av, dsz, ad, srows, erows, nt, p) ==
    IF p >= nt THEN yv
    ELSE RpTeam(RpThread(yv, xv, rp, ci, av, dsz, ad, srows, erows, p),
                xv, rp, ci, av, dsz, ad, srows, erows, nt, p + 1)

csrgemvrp(yv, xv, rp, ci, av, dsz, ad, srows, erows, nt) ==
    RpTeam(yv, xv, rp, ci, av, dsz, ad, srows, erows, nt, 0)

----------------------------------------------------------------------------
(* The nonzero partition: csrgemvnz and the precomputation in main *)

\* startnz = p*(csrsize+nthreads-1)/nthreads;
Startnz(p, nt, csz) == (p * (csz + nt - 1)) \div nt

\* the end of the range without the clamp to csrsize
EndnzUnclamped(p, nt, csz) == ((p + 1) * (csz + nt - 1)) \div nt

\* endnz = (p+1)*(csrsize+nthreads-1)/nthreads; if (endnz > csrsize) endnz = csrsize;
Endnz(p, nt, csz) == Min(((p + 1) * (csz + nt - 1)) \div nt, csz)

\* the loop condition of the scan for the first row
StartrowAdvances(nr, rp, startnz, startrow) ==
    startrow < nr /\ startnz > rp[startrow + 1]

\* the loop condition of the scan for the final row
EndrowAdvances(nr, rp, endnz, endrow) ==
    endrow < nr /\ endnz - 1 > rp[endrow + 1]

\* while (startrow < num_rows && startnz > rowptr[startrow+1]) startrow++;
RECURSIVE ScanStartrow(_, _, _, _)
ScanStartrow(nr, rp, startnz, startrow) ==
    IF StartrowAdvances(nr, rp, startnz, startrow)
    THEN ScanStartrow(nr, rp, startnz, startrow + 1)
    ELSE startrow

\* while (endrow < num_rows && endnz-1 > rowptr[endrow+1]) endrow++;
RECURSIVE ScanEndrow(_, _, _, _)
ScanEndrow(nr, rp, endnz, endrow) ==
    IF EndrowAdvances(nr, rp, endnz, endrow)
    THEN ScanEndrow(nr, rp, endnz, endrow + 1)
    ELSE endrow

\* the nonzero range and the row range of thread p, as csrgemvnz derives them
NzRange(p, nt, nr, csz, rp, srows, erows) ==
    LET startnz  == Startnz(p, nt, csz)
        endnz    == Endnz(p, nt, csz)
        startrow == IF DOMAIN srows # {} THEN srows[p]
                    ELSE ScanStartrow(nr, rp, startnz, 0)
        endrow   == IF DOMAIN erows # {} THEN erows[p]
                    ELSE ScanEndrow(nr, rp, endnz, startrow)
    IN  [startnz |-> startnz, endnz |-> endnz, startrow |-> startrow, endrow |-> endrow]

\* for (i = startrow; i < endrow; i++) y[i] = 0.0;
NzZero(yv, r) == [i \in DOMAIN yv |-> IF r.startrow <= i /\ i < r.endrow THEN 0 ELSE yv[i]]

\* #pragma omp atomic   y[i] += yi;
AtomicAdd(yv, i, yi) == Put(yv, i, Add(At(yv, i), yi))

\* the accumulation of one thread: first row, interior rows, final row
NzAccumulate(yv, xv, rp, ci, av, r) ==
    IF r.startrow = r.endrow
    THEN AtomicAdd(yv, r.startrow, DotLoop(av, ci, xv, 0, r.startnz, r.endnz))
    ELSE LET y1 == AtomicAdd(yv, r.startrow,
                             DotLoop(av, ci, xv, 0, r.startnz, At(rp, r.startrow + 1)))
             y2 == [i \in DOMAIN y1 |->
                       IF r.startrow + 1 <= i /\ i < r.endrow
                       THEN Accumulate(y1[i], DotLoop(av, ci, xv, 0, rp[i], rp[i+1]))
                       ELSE y1[i]]
         IN  AtomicAdd(y2, r.endrow, DotLoop(av, ci, xv, 0, At(rp, r.endrow), r.endnz))

\* the rows a static schedule gives thread p of nt in "#pragma omp for" over 0..n-1
StaticChunk(n, nt, p) ==
    LET q == n \div nt
        r == n % nt
        lo == p * q + Min(p, r)
    IN  lo .. (lo + q + (IF p < r THEN 1 ELSE 0) - 1)

\* thread p's share of: #pragma omp for  for (i...) y[i] += ad[i]*x[i];
NzDiagonal(yv, xv, ad, nr, nt, p) ==
    [i \in DOMAIN yv |->
        IF i \in StaticChunk(nr, nt, p) THEN Add(yv[i], Mul(At(ad, i), At(xv, i)))
        ELSE yv[i]]

----------------------------------------------------------------------------
(* main of csrspmv: the partition planner *)

\* startrows / endrows from --rows-per-thread (rpt is 1-based, the C array 0-based)
RECURSIVE PlanRows(_, _, _, _)
PlanRows(rpt, nt, s, p) ==
    IF p >= nt THEN s
    ELSE LET start == IF p = 0 THEN 0 ELSE s.endrows[p-1]
             end   == IF p = 0 THEN rpt[1]
                      ELSE IF p < Len(rpt) THEN start + rpt[p+1] ELSE start
         IN  PlanRows(rpt, nt, [startrows |-> [s.startrows EXCEPT ![p] = start],
                                endrows   |-> [s.endrows EXCEPT ![p] = end]], p + 1)

\* startrows / endrows precomputed for the nonzero partition
PlanNonzeros(nt, nr, csz, rp) ==
    LET R(p) == NzRange(p, nt, nr, csz, rp, << >>, << >>)
    IN  [startrows |-> [p \in 0..(nt-1) |-> R(p).startrow],
         endrows   |-> [p \in 0..(nt-1) |-> R(p).endrow]]

\* the rows some thread owns under the partition in force (first-touch loops)
Covered(part, rpt, srows, erows, nt, i) ==
    IF part = "rows" /\ rpt = << >> THEN TRUE
    ELSE IF part = "rows" THEN \E p \in 0..(nt-1) : srows[p] <= i /\ i < erows[p]
    ELSE TRUE

\* csrcolidx and csra as allocated and first-touched by main
InitNonzeros(part, rpt, srows, erows, nt, nr, csz, rp) ==
    [k \in 0..(csz-1) |->
        IF \E i \in 0..(nr-1) :
              rp[i] <= k /\ k < rp[i+1] /\ Covered(part, rpt, srows, erows, nt, i)
        THEN 0 ELSE IF part = "nonzeros" THEN 0 ELSE Indeterminate]

\* csrad as allocated and first-touched by main
InitDiagonal(part, rpt, srows, erows, nt, dsz) ==
    [i \in 0..(dsz-1) |->
        IF Covered(part, rpt, srows, erows, nt, i) THEN 0 ELSE Indeterminate]

\* y as allocated and first-touched by main (before an optional read from a file)
InitY(part, rpt, srows, erows, nt, nr, csz, rp) ==
    [i \in 0..(nr-1) |->
        IF part = "rows" THEN 0
        ELSE IF \E p \in 0..(nt-1) :
                   LET r == NzRange(p, nt, nr, csz, rp, srows, erows)
                   IN  r.startrow <= i /\ i < r.endrow
             THEN 0 ELSE Indeterminate]

----------------------------------------------------------------------------
(* ellspmv: ell_from_coo_size, ell_from_coo, the kernels *)

\* if (!separate_diagonal || rowidx[k] != colidx[k]) rowptr[rowidx[k]]++;
RECURSIVE EllCountLoop(_, _, _, _, _, _)
EllCountLoop(nnz, ri, ci, sepdiag, rp, k) ==
    IF k >= nnz THEN rp
    ELSE EllCountLoop(nnz, ri, ci, sepdiag,
                      IF ~sepdiag \/ ri[k] # ci[k] THEN Incr(rp, ri[k]) ELSE rp, k + 1)

ell_from_coo_size(nr, nc, nnz, ri, ci, sepdiag) ==
    LET counts == EllCountLoop(nnz, ri, ci, sepdiag, Arr(nr + 1, 0), 0)
        s      == PrefixLoop([rowmin |-> 0, rowmax |-> 0, rowptr |-> counts], nr, 1)
    IN  [rowptr   |-> s.rowptr,
         rowsize  |-> s.rowmax,
         ellsize  |-> nr * s.rowmax,
         diagsize |-> Min(nr, nc)]

\* EllEntry without the increment of the row's fill count
EllEntryNoAdvance(s, rsz, sepdiag, r, c, v) ==
    IF sepdiag /\ r = c
    THEN [s EXCEPT !.ellad = Put(s.ellad, r - 1, Add(At(s.ellad, r - 1), v))]
    ELSE LET i == r - 1
         IN  [s EXCEPT !.ellcolidx = Put(s.ellcolidx, i * rsz + s.rowptr[i], c - 1),
                       !.ella      = Put(s.ella, i * rsz + s.rowptr[i], v)]

\* one iteration of the scatter loop of ell_from_coo for the entry (r, c, v)
EllEntry(s, rsz, sepdiag, r, c, v) ==
    IF sepdiag /\ r = c
    THEN [s EXCEPT !.ellad = Put(s.ellad, r - 1, Add(At(s.ellad, r - 1), v))]
    ELSE LET i == r - 1
         IN  [s EXCEPT !.ellcolidx = Put(s.ellcolidx, i * rsz + s.rowptr[i], c - 1),
                       !.ella      = Put(s.ella, i * rsz + s.rowptr[i], v),
                       !.rowptr    = Incr(s.rowptr, i),
                       !.stray     = s.stray \/ s.rowptr[i] >= rsz]

RECURSIVE EllScatterLoop(_, _, _, _, _, _, _, _)
EllScatterLoop(nnz, ri, ci, av, rsz, sepdiag, s, k) ==
    IF k >= nnz THEN s
    ELSE EllScatterLoop(nnz, ri, ci, av, rsz, sepdiag,
                        EllEntry(s, rsz, sepdiag, ri[k], ci[k], av[k]), k + 1)

\* the column index that padding entries of row i get
PadColumn(i, nc) == IF i < nc THEN i ELSE nc - 1

\* for (l = rowptr[i]; l < rowsize; l++) { ellcolidx[i*rowsize+l] = j; ella[...] = 0.0; }
EllPad(s, nr, nc, rsz) ==
    LET padded(k) == LET i == k \div rsz
                     IN  i < nr /\ k - i * rsz >= s.rowptr[i]
    IN  [s EXCEPT !.ellcolidx = [k \in DOMAIN s.ellcolidx |->
                                    IF padded(k) THEN PadColumn(k \div rsz, nc)
                                    ELSE s.ellcolidx[k]],
                  !.ella      = [k \in DOMAIN s.ella |->
                                    IF padded(k) THEN 0 ELSE s.ella[k]]]

ell_from_coo(nr, nc, nnz, ri, ci, av, rsz, eci, ea, ead, sepdiag, sort) ==
    LET s0 == [rowptr |-> Arr(nr + 1, 0), ellcolidx |-> eci, ella |-> ea,
               ellad |-> ead, stray |-> FALSE]
        scattered == EllScatterLoop(nnz, ri, ci, av, rsz, sepdiag, s0, 0)
        padded == EllPad(scattered, nr, nc, rsz)
        sorted == rowsort(nr, padded.rowptr, rsz, padded.ellcolidx, padded.ella)
    IN  IF sort
        THEN [padded EXCEPT !.ellcolidx = sorted.colidx, !.ella = sorted.a]
        ELSE padded

\* for (l = l0; l < rowsize; l++) yi += a[i*rowsize+l] * x[colidx[i*rowsize+l]];
RECURSIVE EllDotLoop(_, _, _, _, _, _, _)
EllDotLoop(av, ci, xv, yi, i, rsz, l) ==
    IF l >= rsz THEN yi
    ELSE EllDotLoop(av, ci, xv,
                    Add(yi, Mul(At(av, i * rsz + l), At(xv, At(ci, i * rsz + l)))),
                    i, rsz, l + 1)

ellgemv(nr, yv, xv, rsz, ci, av) ==
    [i \in 0..(nr-1) |-> Accumulate(yv[i], EllDotLoop(av, ci, xv, 0, i, rsz, 0))]

ellgemvsd(nr, yv, xv, rsz, ci, av, ad) ==
    [i \in 0..(nr-1) |->
        AccumulateDiag(yv[i], At(ad, i), At(xv, i), EllDotLoop(av, ci, xv, 0, i, rsz, 0))]

----------------------------------------------------------------------------
(* Inputs: the matrix file, the options, the vector files, the team size *)

\* the matrix of the documented example: 3x3, five entries
ExampleMatrix ==
    [num_rows |-> 3, num_columns |-> 3, num_nonzeros |-> 5,
     rowidx |-> [k \in 0..4 |-> << 1, 1, 2, 3, 3 >>[k+1]],
     colidx |-> [k \in 0..4 |-> << 1, 2, 2, 1, 3 >>[k+1]],
     a      |-> [k \in 0..4 |-> << 2, 3, 4, 5, 6 >>[k+1]]]

\* every coordinate matrix within the bounds; entry k has the value 2^k
BoundedMatrices ==
    UNION { UNION { UNION {
        { [num_rows |-> nr, num_columns |-> nc, num_nonzeros |-> n,
           rowidx |-> ri, colidx |-> ci, a |-> [k \in 0..(n-1) |-> 2^k]]
          : ri \in [0..(n-1) -> 1..nr], ci \in [0..(n-1) -> 1..nc] }
        : n \in 0..MaxNnz } : nc \in 1..MaxDim } : nr \in 1..MaxDim }

InputMatrices == { ExampleMatrix } \cup BoundedMatrices

\* the lists --rows-per-thread can give (never empty), and << >> for no option
RowLists ==
    { << >> } \cup UNION { [1..n -> 0..MaxDim] : n \in 1..MaxThreads }

\* the vectors a file can give for a vector of length n, and << >> for no file
XFiles(n) == { << >>, [j \in 0..(n-1) |-> j + 2] }

YFiles(n) == { << >>, [i \in 0..(n-1) |-> 10 * (i + 1)] }

\* a file of zeros: differs from no file only where main leaves y untouched
ZeroFile(n) == [i \in 0..(n-1) |-> 0]

InitInputs ==
    /\ \E m \in InputMatrices :
          /\ num_rows = m.num_rows
          /\ num_columns = m.num_columns
          /\ num_nonzeros = m.num_nonzeros
          /\ rowidx = m.rowidx
          /\ colidx = m.colidx
          /\ a = m.a
    /\ separate_diagonal \in BOOLEAN
    /\ nthreads \in 1..MaxThreads
    /\ xfile \in XFiles(num_columns)

InitState ==
    /\ rowptr = << >>
    /\ csrsize = 0 /\ rowsizemin = 0 /\ rowsizemax = 0 /\ diagsize = 0
    /\ startrows = << >> /\ endrows = << >>
    /\ csrcolidx = << >> /\ csra = << >> /\ csrad = << >>
    /\ ellsize = 0 /\ rowsize = 0
    /\ ellcolidx = << >> /\ ella = << >> /\ ellad = << >>
    /\ stray = FALSE
    /\ x = << >> /\ y = << >> /\ y0 = << >>
    /\ repeat = 0
    /\ tpc = << >>
    /\ err = 0
    /\ oob = FALSE
    /\ warmup = 0
    /\ args_warmup = AnyCount /\ args_repeat = AnyCount
    /\ thr = << >>

InitCsr ==
    /\ prog = "csrspmv"
    /\ pc = "size"
    /\ InitInputs
    /\ symmetry \in { "general", "symmetric" }
    /\ sort_rows = FALSE
    /\ partition \in { "rows", "nonzeros" }
    /\ precompute_partition \in (IF partition = "nonzeros" THEN BOOLEAN ELSE { FALSE })
    /\ rows_per_thread \in (IF partition = "rows" THEN RowLists ELSE { << >> })
    /\ yfile \in (IF partition = "nonzeros"
                  THEN YFiles(num_rows) \cup { ZeroFile(num_rows) }
                  ELSE YFiles(num_rows))
    /\ InitState

InitEll ==
    /\ prog = "ellspmv"
    /\ pc = "size"
    /\ InitInputs
    /\ symmetry = "general"
    /\ sort_rows \in BOOLEAN
    /\ partition = "rows"
    /\ precompute_partition = FALSE
    /\ rows_per_thread = << >>
    /\ yfile \in YFiles(num_rows)
    /\ InitState

Init == InitCsr \/ InitEll

inputs == << prog, symmetry, num_rows, num_columns, num_nonzeros, rowidx, colidx, a,
             separate_diagonal, sort_rows, partition, precompute_partition,
             rows_per_thread, nthreads, xfile, yfile >>

ellstate == << ellsize, rowsize, ellcolidx, ella, ellad, stray >>

\* what only the specifications of the conversions' errors, of the warmup
\* loop and of the loops' barriers change
aux == << err, oob, warmup, args_warmup, args_repeat, thr >>

----------------------------------------------------------------------------
(* main of csrspmv *)

CsrFromCooSize ==
    /\ prog = "csrspmv" /\ pc = "size"
    /\ LET s == csr_from_coo_size(symmetry, num_rows, num_columns, num_nonzeros,
                                  rowidx, colidx, separate_diagonal)
       IN  /\ rowptr' = s.rowptr
           /\ csrsize' = s.csrsize
           /\ rowsizemin' = s.rowsizemin
           /\ rowsizemax' = s.rowsizemax
           /\ diagsize' = s.diagsize
    /\ pc' = "plan"
    /\ UNCHANGED << inputs, aux, ellstate, startrows, endrows, csrcolidx, csra, csrad,
                    x, y, y0, repeat, tpc >>

\* the sum of --rows-per-thread exceeds the number of rows: EXIT_FAILURE
PlanRejects(plan, nt, nr) == plan.endrows[nt-1] > nr

PlanPartition ==
    /\ prog = "csrspmv" /\ pc = "plan"
    /\ IF partition = "rows" /\ rows_per_thread # << >>
       THEN LET plan == PlanRows(rows_per_thread, nthreads,
                                 [startrows |-> Arr(nthreads, 0),
                                  endrows |-> Arr(nthreads, 0)], 0)
            IN  /\ startrows' = plan.startrows
                /\ endrows' = plan.endrows
                /\ pc' = IF PlanRejects(plan, nthreads, num_rows) THEN "abort" ELSE "fill"
       ELSE IF partition = "nonzeros" /\ precompute_partition
       THEN LET plan == PlanNonzeros(nthreads, num_rows, csrsize, rowptr)
            IN  /\ startrows' = plan.startrows
                /\ endrows' = plan.endrows
                /\ pc' = "fill"
       ELSE /\ UNCHANGED << startrows, endrows >>
            /\ pc' = "fill"
    /\ UNCHANGED << inputs, aux, ellstate, rowptr, csrsize, rowsizemin, rowsizemax, diagsize,
                    csrcolidx, csra, csrad, x, y, y0, repeat, tpc >>

CsrFromCoo ==
    /\ prog = "csrspmv" /\ pc = "fill"
    /\ LET cci == InitNonzeros(partition, rows_per_thread, startrows, endrows,
                               nthreads, num_rows, csrsize, rowptr)
           cad == InitDiagonal(partition, rows_per_thread, startrows, endrows,
                               nthreads, diagsize)
           s   == csr_from_coo(symmetry, num_rows, num_columns, num_nonzeros,
                               rowidx, colidx, a, rowptr, rowsizemax,
                               cci, cci, cad, separate_diagonal, sort_rows)
       IN  /\ rowptr' = s.rowptr
           /\ csrcolidx' = s.csrcolidx
           /\ csra' = s.csra
           /\ csrad' = s.csrad
    /\ pc' = "vectors"
    /\ UNCHANGED << inputs, aux, ellstate, csrsize, rowsizemin, rowsizemax, diagsize,
                    startrows, endrows, x, y, y0, repeat, tpc >>

\* x: all ones unless read from a file
InitX(xf, nc) == IF xf = << >> THEN Arr(nc, 1) ELSE xf

CsrVectors ==
    /\ prog = "csrspmv" /\ pc = "vectors"
    /\ x' = InitX(xfile, num_columns)
    /\ y' = IF yfile = << >>
            THEN InitY(partition, rows_per_thread, startrows, endrows, nthreads,
                       num_rows, csrsize, rowptr)
            ELSE yfile
    /\ y0' = y'
    /\ repeat' = 0
    /\ tpc' = Arr(nthreads, "enter")
    /\ pc' = "loop"
    /\ UNCHANGED << inputs, aux, ellstate, rowptr, csrsize, rowsizemin, rowsizemax, diagsize,
                    startrows, endrows, csrcolidx, csra, csrad >>

\* which kernel the repeat loop of csrspmv calls
CsrKernel(part, rpt, sepdiag) ==
    IF part = "rows" /\ rpt = << >>
    THEN IF sepdiag THEN "csrgemvsd" ELSE "csrgemv"
    ELSE IF part = "rows" THEN "csrgemvrp"
    ELSE "csrgemvnz"

InLoop(kernel) ==
    /\ prog = "csrspmv" /\ pc = "loop" /\ repeat < MaxRepeat
    /\ CsrKernel(partition, rows_per_thread, separate_diagonal) = kernel

loopframe == << inputs, aux, ellstate, rowptr, csrsize, rowsizemin, rowsizemax, diagsize,
                startrows, endrows, csrcolidx, csra, csrad, x, y0 >>

\* one iteration of the repeat loop that calls csrgemv
CallCsrGemv ==
    /\ InLoop("csrgemv")
    /\ y' = csrgemv(num_rows, y, x, rowptr, csrcolidx, csra)
    /\ repeat' = repeat + 1
    /\ UNCHANGED << loopframe, pc, tpc >>

\* one iteration of the repeat loop that calls csrgemvsd
CallCsrGemvSd ==
    /\ InLoop("csrgemvsd")
    /\ y' = csrgemvsd(num_rows, y, x, rowptr, csrcolidx, csra, csrad)
    /\ repeat' = repeat + 1
    /\ UNCHANGED << loopframe, pc, tpc >>

\* one iteration of the repeat loop that calls csrgemvrp
CallCsrGemvRp ==
    /\ InLoop("csrgemvrp")
    /\ y' = csrgemvrp(y, x, rowptr, csrcolidx, csra, diagsize, csrad,
                      startrows, endrows, nthreads)
    /\ repeat' = repeat + 1
    /\ UNCHANGED << loopframe, pc, tpc >>

\* the row and nonzero ranges of thread p in the current call of csrgemvnz
MyRange(p) == NzRange(p, nthreads, num_rows, csrsize, rowptr, startrows, endrows)

\* thread p enters csrgemvnz, derives its ranges and zeroes its rows
NzEnter(p) ==
    /\ InLoop("csrgemvnz") /\ tpc[p] = "enter"
    /\ y' = NzZero(y, MyRange(p))
    /\ tpc' = [tpc EXCEPT ![p] = "zeroed"]
    /\ UNCHANGED << loopframe, pc, repeat >>

\* thread p adds its partial sums
NzAdd(p) ==
    /\ InLoop("csrgemvnz") /\ tpc[p] = "zeroed"
    /\ y' = NzAccumulate(y, x, rowptr, csrcolidx, csra, MyRange(p))
    /\ tpc' = [tpc EXCEPT ![p] = "added"]
    /\ UNCHANGED << loopframe, pc, repeat >>

\* thread p runs its share of the diagonal loop, or goes to the barrier
NzFinish(p) ==
    /\ InLoop("csrgemvnz") /\ tpc[p] = "added"
    /\ y' = IF diagsize > 0 THEN NzDiagonal(y, x, csrad, num_rows, nthreads, p) ELSE y
    /\ tpc' = [tpc EXCEPT ![p] = "barrier"]
    /\ UNCHANGED << loopframe, pc, repeat >>

\* every thread has reached the barrier that ends csrgemvnz: the call returns
NzReturn ==
    /\ InLoop("csrgemvnz")
    /\ \A p \in 0..(nthreads-1) : tpc[p] = "barrier"
    /\ tpc' = Arr(nthreads, "enter")
    /\ repeat' = repeat + 1
    /\ UNCHANGED << loopframe, pc, y >>

\* the repeat loop ends: repeat = args.repeat, for any args.repeat in 0..MaxRepeat
CsrExit ==
    /\ prog = "csrspmv" /\ pc = "loop"
    /\ \A p \in 0..(nthreads-1) : tpc[p] = "enter"
    /\ pc' = "exit"
    /\ UNCHANGED << loopframe, y, repeat, tpc >>

----------------------------------------------------------------------------
(* main of ellspmv *)

csrstate == << csrsize, rowsizemin, rowsizemax, startrows, endrows,
               csrcolidx, csra, csrad, tpc >>

EllFromCooSize ==
    /\ prog = "ellspmv" /\ pc = "size"
    /\ LET s == ell_from_coo_size(num_rows, num_columns, num_nonzeros,
                                  rowidx, colidx, separate_diagonal)
       IN  /\ rowptr' = s.rowptr
           /\ rowsize' = s.rowsize
           /\ ellsize' = s.ellsize
           /\ diagsize' = s.diagsize
    /\ pc' = "fill"
    /\ UNCHANGED << inputs, aux, csrstate, ellcolidx, ella, ellad, stray, x, y, y0, repeat >>

\* ellad as allocated (diagsize elements) and zeroed (for every i < num_rows) by main
EllInitDiagonal(dsz) == Arr(dsz, 0)

\* the allocation and zeroing of the arrays, and the call of ell_from_coo:
\* main passes (args.sort_rows, args.separate_diagonal) for the parameters
\* (separate_diagonal, sort_rows)
EllFromCooCall(nr, nc, nnz, ri, ci, av, esz, rsz, dsz, sepdiag, sort) ==
    ell_from_coo(nr, nc, nnz, ri, ci, av, rsz, Arr(esz, 0), Arr(esz, 0),
                 EllInitDiagonal(dsz), sort, sepdiag)

EllFromCoo ==
    /\ prog = "ellspmv" /\ pc = "fill"
    /\ LET s == EllFromCooCall(num_rows, num_columns, num_nonzeros, rowidx, colidx, a,
                               ellsize, rowsize, diagsize, separate_diagonal, sort_rows)
       IN  /\ rowptr' = s.rowptr
           /\ ellcolidx' = s.ellcolidx
           /\ ella' = s.ella
           /\ ellad' = s.ellad
           /\ stray' = s.stray
    /\ pc' = "vectors"
    /\ UNCHANGED << inputs, aux, csrstate, ellsize, rowsize, diagsize, x, y, y0, repeat >>

EllVectors ==
    /\ prog = "ellspmv" /\ pc = "vectors"
    /\ x' = InitX(xfile, num_columns)
    /\ y' = IF yfile = << >> THEN Arr(num_rows, 0) ELSE yfile
    /\ y0' = y'
    /\ repeat' = 0
    /\ pc' = "loop"
    /\ UNCHANGED << inputs, aux, csrstate, ellstate, rowptr, diagsize >>

\* which kernel the repeat loop of ellspmv calls
EllKernel(sepdiag, rsz) ==
    IF sepdiag /\ rsz = 16 THEN "ellgemv16sd"
    ELSE IF sepdiag THEN "ellgemvsd"
    ELSE "ellgemv"

ellframe == << inputs, aux, csrstate, ellstate, rowptr, diagsize, x, y0 >>

\* one iteration of the repeat loop that calls ellgemv
CallEllGemv ==
    /\ prog = "ellspmv" /\ pc = "loop" /\ repeat < MaxRepeat
    /\ EllKernel(separate_diagonal, rowsize) = "ellgemv"
    /\ y' = ellgemv(num_rows, y, x, rowsize, ellcolidx, ella)
    /\ repeat' = repeat + 1
    /\ UNCHANGED << ellframe, pc >>

\* one iteration of the repeat loop that calls ellgemvsd
CallEllGemvSd ==
    /\ prog = "ellspmv" /\ pc = "loop" /\ repeat < MaxRepeat
    /\ EllKernel(separate_diagonal, rowsize) = "ellgemvsd"
    /\ y' = ellgemvsd(num_rows, y, x, rowsize, ellcolidx, ella, ellad)
    /\ repeat' = repeat + 1
    /\ UNCHANGED << ellframe, pc >>

\* the repeat loop ends: repeat = args.repeat, for any args.repeat in 0..MaxRepeat
EllExit ==
    /\ prog = "ellspmv" /\ pc = "loop"
    /\ pc' = "exit"
    /\ UNCHANGED << ellframe, y, repeat >>

Next ==
    \/ CsrFromCooSize
    \/ PlanPartition
    \/ CsrFromCoo
    \/ CsrVectors
    \/ CallCsrGemv
    \/ CallCsrGemvSd
    \/ CallCsrGemvRp
    \/ \E p \in 0..(nthreads-1) : NzEnter(p)
    \/ \E p \in 0..(nthreads-1) : NzAdd(p)
    \/ \E p \in 0..(nthreads-1) : NzFinish(p)
    \/ NzReturn
    \/ CsrExit
    \/ EllFromCooSize
    \/ EllFromCoo
    \/ EllVectors
    \/ CallEllGemv
    \/ CallEllGemvSd
    \/ EllExit

Spec == Init /\ [][Next]_vars

----------------------------------------------------------------------------
(* Reference values: the product of the matrix of the file with a vector *)

Square == num_rows = num_columns

\* the file stores entries of one triangle only
OneTriangle ==
    \/ \A k \in 0..(num_nonzeros-1) : rowidx[k] >= colidx[k]
    \/ \A k \in 0..(num_nonzeros-1) : rowidx[k] <= colidx[k]

\* the matrix is read as symmetric: each off-diagonal entry stands for two
Mirrored == symmetry = "symmetric" /\ Square

\* what entry k of the file contributes to row i (0-based) of A*xv
CooTerm(i, k, xv, mirror) ==
    (IF rowidx[k] = i + 1 THEN a[k] * xv[colidx[k] - 1] ELSE 0)
    + (IF mirror /\ colidx[k] = i + 1 /\ rowidx[k] # colidx[k]
       THEN a[k] * xv[rowidx[k] - 1] ELSE 0)

RECURSIVE CooDot(_, _, _, _)
CooDot(i, k, xv, mirror) ==
    IF k >= num_nonzeros THEN 0
    ELSE CooTerm(i, k, xv, mirror) + CooDot(i, k + 1, xv, mirror)

\* A*xv, entry by entry of the file
Product(xv, mirror) == [i \in 0..(num_rows-1) |-> CooDot(i, 0, xv, mirror)]

\* yv + n*pv
PlusTimes(yv, n, pv) == [i \in DOMAIN yv |-> Add(yv[i], n * pv[i])]

Vec(seq) == [i \in 0..(Len(seq)-1) |-> seq[i+1]]

\* main has built the layout
Converted == pc \in { "vectors", "loop", "exit" }

\* the repeat loop is between two kernel invocations, or has ended
BetweenCalls ==
    /\ pc \in { "loop", "exit" }
    /\ prog = "csrspmv" => \A p \in 0..(nthreads-1) : tpc[p] = "enter"

DefaultRows == partition = "rows" /\ rows_per_thread = << >>

----------------------------------------------------------------------------
(* The documented 3x3 example *)

ExampleRun ==
    /\ prog = "csrspmv"
    /\ num_rows = ExampleMatrix.num_rows /\ num_columns = ExampleMatrix.num_columns
    /\ num_nonzeros = ExampleMatrix.num_nonzeros
    /\ rowidx = ExampleMatrix.rowidx /\ colidx = ExampleMatrix.colidx
    /\ a = ExampleMatrix.a
    /\ symmetry = "general"
    /\ ~separate_diagonal

\* C1: for the 3x3 example, converted without diagonal separation, rowptr is
\* [0,2,3,5] and each row holds the column/value pairs of its entries in the file;
\* one call of csrgemv with x = [1,1,1] from y = [0,0,0] leaves y = [5,4,11],
\* whatever the number of threads.
C1_Example ==
    /\ (ExampleRun /\ Converted) =>
          /\ rowptr = Vec(<< 0, 2, 3, 5 >>)
          /\ csrcolidx = Vec(<< 0, 1, 1, 0, 2 >>)
          /\ csra = Vec(<< 2, 3, 4, 5, 6 >>)
    /\ (ExampleRun /\ DefaultRows /\ xfile = << >> /\ yfile = << >>
            /\ BetweenCalls /\ repeat = 1) =>
          y = Vec(<< 5, 4, 11 >>)

C1_Witness ==
    /\ ExampleRun /\ DefaultRows /\ xfile = << >> /\ yfile = << >>
    /\ nthreads = MaxThreads
    /\ pc = "loop" /\ repeat = 1
    /\ rowptr = Vec(<< 0, 2, 3, 5 >>)
    /\ y = Vec(<< 5, 4, 11 >>)

----------------------------------------------------------------------------
(* The nonzero partition against the row partition *)

\* C2: from y = 0 and without a separated diagonal, one call of csrgemvnz leaves
\* in every row what csrgemv leaves: the sum of a[k]*x[colidx[k]] over the row.
C2_PartitionIndependence ==
    (/\ prog = "csrspmv" /\ partition = "nonzeros" /\ ~separate_diagonal
     /\ BetweenCalls /\ repeat = 1
     /\ y0 = Arr(num_rows, 0)) =>
        y = csrgemv(num_rows, y0, x, rowptr, csrcolidx, csra)

----------------------------------------------------------------------------
(* Repeated invocations *)

\* every row belongs to some thread of the row partition
AllCovered ==
    \A i \in 0..(num_rows-1) :
        Covered(partition, rows_per_thread, startrows, endrows, nthreads, i)

\* the file describes one matrix: general, or symmetric with one triangle stored
OneMatrix == symmetry = "general" \/ (Square /\ OneTriangle)

\* the product of the ELLPACK layout in memory with x, slot by slot
RECURSIVE EllSlots(_, _)
EllSlots(i, l) ==
    IF l >= rowsize THEN 0
    ELSE ella[i * rowsize + l] * x[ellcolidx[i * rowsize + l]] + EllSlots(i, l + 1)

EllLayoutProduct ==
    [i \in 0..(num_rows-1) |->
        EllSlots(i, 0) + (IF separate_diagonal THEN ellad[i] * x[i] ELSE 0)]

C4_NonzerosAccumulates ==
    (/\ prog = "csrspmv" /\ partition = "nonzeros" /\ OneMatrix
     /\ yfile # << >>
     /\ BetweenCalls /\ repeat >= 1) =>
        y = PlusTimes(y0, repeat, Product(x, Mirrored))

----------------------------------------------------------------------------
(* CSR against ELLPACK *)

\* the CSR layout main builds for the matrix of the file under the default partition
CsrLayoutOf(sym, sepdiag) ==
    LET sz == csr_from_coo_size(sym, num_rows, num_columns, num_nonzeros,
                                rowidx, colidx, sepdiag)
    IN  csr_from_coo(sym, num_rows, num_columns, num_nonzeros, rowidx, colidx, a,
                     sz.rowptr, sz.rowsizemax,
                     Arr(sz.csrsize, 0), Arr(sz.csrsize, 0), Arr(sz.diagsize, 0),
                     sepdiag, FALSE)

RECURSIVE CsrGemvTimes(_, _, _)
CsrGemvTimes(L, yv, n) ==
    IF n = 0 THEN yv
    ELSE CsrGemvTimes(L, csrgemv(num_rows, yv, x, L.rowptr, L.csrcolidx, L.csra), n - 1)

\* C5: for a general matrix converted without diagonal separation and without row
\* sorting, ellgemv on the ELLPACK layout leaves the y that csrgemv leaves on the
\* CSR layout, from the same x and the same initial y.
C5_CsrEllEquivalence ==
    (/\ prog = "ellspmv" /\ symmetry = "general"
     /\ ~separate_diagonal /\ ~sort_rows
     /\ BetweenCalls) =>
        /\ ~stray
        /\ y = CsrGemvTimes(CsrLayoutOf("general", FALSE), y0, repeat)

C5_Witness ==
    /\ prog = "ellspmv" /\ symmetry = "general"
    /\ ~separate_diagonal /\ ~sort_rows
    /\ num_rows # num_columns
    /\ num_nonzeros = MaxNnz
    /\ \E i \in 1..num_rows : \A k \in 0..(num_nonzeros-1) : rowidx[k] # i
    /\ xfile # << >> /\ yfile # << >>
    /\ pc = "loop" /\ repeat = 1
    /\ y # y0

----------------------------------------------------------------------------
(* Diagonal separation *)

\* the CSR layout main builds with the given separate_diagonal under the row
\* partition in force
CsrRowsLayout(sepdiag) ==
    LET sz == csr_from_coo_size(symmetry, num_rows, num_columns, num_nonzeros,
                                rowidx, colidx, sepdiag)
        nz == InitNonzeros(partition, rows_per_thread, startrows, endrows,
                           nthreads, num_rows, sz.csrsize, sz.rowptr)
        ad == InitDiagonal(partition, rows_per_thread, startrows, endrows,
                           nthreads, sz.diagsize)
        L  == csr_from_coo(symmetry, num_rows, num_columns, num_nonzeros,
                           rowidx, colidx, a, sz.rowptr, sz.rowsizemax,
                           nz, nz, ad, sepdiag, sort_rows)
    IN  [rowptr |-> L.rowptr, csrcolidx |-> L.csrcolidx, csra |-> L.csra,
         csrad |-> L.csrad, diagsize |-> sz.diagsize]

\* one iteration of the repeat loop of csrspmv under the row partition
CsrRowsCall(L, sepdiag, yv) ==
    LET kernel == CsrKernel(partition, rows_per_thread, sepdiag)
    IN  IF kernel = "csrgemv"
        THEN csrgemv(num_rows, yv, x, L.rowptr, L.csrcolidx, L.csra)
        ELSE IF kernel = "csrgemvsd"
        THEN csrgemvsd(num_rows, yv, x, L.rowptr, L.csrcolidx, L.csra, L.csrad)
        ELSE csrgemvrp(yv, x, L.rowptr, L.csrcolidx, L.csra, L.diagsize, L.csrad,
                       startrows, endrows, nthreads)

RECURSIVE CsrRowsTimes(_, _, _, _)
CsrRowsTimes(L, sepdiag, yv, n) ==
    IF n = 0 THEN yv
    ELSE CsrRowsTimes(L, sepdiag, CsrRowsCall(L, sepdiag, yv), n - 1)

EllLayoutOf(sepdiag, sort) ==
    LET sz == ell_from_coo_size(num_rows, num_columns, num_nonzeros,
                                rowidx, colidx, sepdiag)
        L  == EllFromCooCall(num_rows, num_columns, num_nonzeros, rowidx, colidx, a,
                             sz.ellsize, sz.rowsize, sz.diagsize, sepdiag, sort)
    IN  [rowsize |-> sz.rowsize, ellcolidx |-> L.ellcolidx, ella |-> L.ella,
         ellad |-> L.ellad, stray |-> L.stray]

\* one iteration of the repeat loop of ellspmv
EllCall(L, sepdiag, yv) ==
    IF EllKernel(sepdiag, L.rowsize) = "ellgemv"
    THEN ellgemv(num_rows, yv, x, L.rowsize, L.ellcolidx, L.ella)
    ELSE ellgemvsd(num_rows, yv, x, L.rowsize, L.ellcolidx, L.ella, L.ellad)

RECURSIVE EllTimes(_, _, _, _)
EllTimes(L, sepdiag, yv, n) ==
    IF n = 0 THEN yv
    ELSE EllTimes(L, sepdiag, EllCall(L, sepdiag, yv), n - 1)

\* C7: on a square general matrix the run of ellspmv with --separate-diagonal
\* leaves the y that the run without the option leaves, and the conversion
\* stores every entry of row i inside the slots of row i.
C7_EllSeparateDiagonal ==
    (/\ BetweenCalls
     /\ prog = "ellspmv" /\ symmetry = "general" /\ Square
     /\ separate_diagonal) =>
        /\ ~stray
        /\ y = EllTimes(EllLayoutOf(FALSE, sort_rows), FALSE, y0, repeat)

----------------------------------------------------------------------------
(* Symmetric matrices *)

Entries == 0..(num_nonzeros-1)

\* the (column, value) pairs the layout holds in row i
CsrRowPairs(i) == { << csrcolidx[k], csra[k] >> : k \in rowptr[i]..(rowptr[i+1]-1) }

\* the entries (i, j, v) of the file, as (column, value) pairs of row i
StoredPairs(i, withdiag) ==
    { << colidx[k] - 1, a[k] >> :
        k \in { e \in Entries : rowidx[e] = i + 1 /\ (withdiag \/ colidx[e] # i + 1) } }

\* the off-diagonal entries (j, i, v) of the file, as (column, value) pairs of row i
MirrorPairs(i) ==
    { << rowidx[k] - 1, a[k] >> :
        k \in { e \in Entries : colidx[e] = i + 1 /\ rowidx[e] # i + 1 } }

RECURSIVE DiagSum(_, _)
DiagSum(i, k) ==
    IF k >= num_nonzeros THEN 0
    ELSE (IF rowidx[k] = i + 1 /\ colidx[k] = i + 1 THEN a[k] ELSE 0) + DiagSum(i, k + 1)

\* the values stored for row i and mirrored into row i, added up
RECURSIVE RowTotal(_, _)
RowTotal(i, k) ==
    IF k >= num_nonzeros THEN 0
    ELSE (IF rowidx[k] = i + 1 \/ colidx[k] = i + 1 THEN a[k] ELSE 0) + RowTotal(i, k + 1)

SymmetricInput == prog = "csrspmv" /\ symmetry = "symmetric" /\ Square /\ OneTriangle

\* C8: for a square symmetric matrix with one triangle stored, row i of the CSR
\* layout holds every stored entry (i,j,v) and the mirror (i,j,v) of every stored
\* off-diagonal entry (j,i,v) (the diagonal in csrad when separated); multiplying by
\* the all-ones vector from y = 0 gives each row's sum of stored and mirrored values.
C8_SymmetricMultiply ==
    /\ (Converted /\ SymmetricInput) =>
          /\ \A i \in 0..(num_rows-1) :
                /\ CsrRowPairs(i) = StoredPairs(i, ~separate_diagonal) \cup MirrorPairs(i)
                /\ rowptr[i+1] - rowptr[i] = Cardinality(CsrRowPairs(i))
          /\ (separate_diagonal /\ AllCovered) =>
                csrad = [i \in 0..(num_rows-1) |-> DiagSum(i, 0)]
    /\ (BetweenCalls /\ SymmetricInput /\ DefaultRows
            /\ xfile = << >> /\ yfile = << >> /\ repeat = 1) =>
          y = [i \in 0..(num_rows-1) |-> RowTotal(i, 0)]

C8_Witness ==
    /\ pc = "loop" /\ repeat = 1
    /\ SymmetricInput /\ DefaultRows /\ xfile = << >> /\ yfile = << >>
    /\ separate_diagonal
    /\ num_nonzeros = MaxNnz
    /\ \E k \in Entries : rowidx[k] # colidx[k]
    /\ \E k \in Entries : rowidx[k] = colidx[k]
    /\ y = [i \in 0..(num_rows-1) |-> RowTotal(i, 0)]

OffDiagonalCount == Cardinality({ k \in Entries : rowidx[k] # colidx[k] })

DiagonalCount == Cardinality({ k \in Entries : rowidx[k] = colidx[k] })

\* C9: for a square symmetric matrix with one triangle stored, csr_from_coo_size
\* returns csrsize = 2*(stored off-diagonal entries) + (stored diagonal entries),
\* and with separate_diagonal csrsize = 2*(stored off-diagonal entries) and
\* diagsize = num_rows.
C9_SymmetricSize ==
    (pc # "size" /\ SymmetricInput) =>
        IF separate_diagonal
        THEN csrsize = 2 * OffDiagonalCount /\ diagsize = num_rows
        ELSE csrsize = 2 * OffDiagonalCount + DiagonalCount

C9_Witness ==
    /\ pc = "plan" /\ SymmetricInput
    /\ ~separate_diagonal
    /\ OffDiagonalCount = 2 /\ DiagonalCount = 1
    /\ csrsize = 5

----------------------------------------------------------------------------
(* Row ranges of the nonzero partition *)

\* C10: every nonzero k of the range [startnz, endnz) of a worker lies in a row of
\* the worker's range startrow..endrow, as the linear scans derive it.
C10_NonzeroRowsCovered ==
    (pc = "loop" /\ prog = "csrspmv" /\ partition = "nonzeros") =>
        \A p \in 0..(nthreads-1) :
            LET r == MyRange(p)
            IN  \A k \in r.startnz..(r.endnz-1) :
                    \E i \in r.startrow..r.endrow :
                        i < num_rows /\ rowptr[i] <= k /\ k < rowptr[i+1]

----------------------------------------------------------------------------
(* The explicit row partition *)

\* main went on after the planner with a --rows-per-thread list
PlanAccepted ==
    /\ pc \in { "fill", "vectors", "loop", "exit" }
    /\ prog = "csrspmv" /\ partition = "rows" /\ rows_per_thread # << >>

\* the rows of thread p under the explicit row partition
RowsOf(p) == { i \in 0..(num_rows-1) : startrows[p] <= i /\ i < endrows[p] }

\* C11: for every --rows-per-thread list the planner accepts, the ranges
\* [startrows[p], endrows[p]) are contiguous, pairwise disjoint, inside
\* [0, num_rows) and cover [0, num_rows) exactly.
C11_RowPartitionCovers ==
    PlanAccepted =>
        /\ startrows[0] = 0
        /\ \A p \in 1..(nthreads-1) : startrows[p] = endrows[p-1]
        /\ \A p \in 0..(nthreads-1) :
              0 <= startrows[p] /\ startrows[p] <= endrows[p] /\ endrows[p] <= num_rows
        /\ \A p, q \in 0..(nthreads-1) : p # q => RowsOf(p) \cap RowsOf(q) = {}
        /\ UNION { RowsOf(p) : p \in 0..(nthreads-1) } = 0..(num_rows-1)

----------------------------------------------------------------------------
(* The ELLPACK conversion on its own: ell_from_coo_size and ell_from_coo are
   called with one and the same separate_diagonal, on matrices of up to
   ConvDim rows and columns, and the matching kernel is applied once. *)

ConvDim == 3
ConvNnz == 3

ConvMatrices ==
    UNION { UNION { UNION {
        { [num_rows |-> nr, num_columns |-> nc, num_nonzeros |-> n,
           rowidx |-> ri, colidx |-> ci, a |-> [k \in 0..(n-1) |-> 2^k]]
          : ri \in [0..(n-1) -> 1..nr], ci \in [0..(n-1) -> 1..nc] }
        : n \in 0..ConvNnz } : nc \in 1..ConvDim } : nr \in 1..ConvDim }

InitEllConv ==
    /\ prog = "ell_from_coo"
    /\ pc = "size"
    /\ \E m \in ConvMatrices :
          /\ num_rows = m.num_rows
          /\ num_columns = m.num_columns
          /\ num_nonzeros = m.num_nonzeros
          /\ rowidx = m.rowidx
          /\ colidx = m.colidx
          /\ a = m.a
    /\ separate_diagonal \in BOOLEAN
    /\ sort_rows \in BOOLEAN
    /\ symmetry = "general"
    /\ nthreads = 1
    /\ partition = "rows"
    /\ precompute_partition = FALSE
    /\ rows_per_thread = << >>
    /\ xfile = [j \in 0..(num_columns-1) |-> j + 2]
    /\ yfile = << >>
    /\ InitState

EllConvSize ==
    /\ prog = "ell_from_coo" /\ pc = "size"
    /\ LET s == ell_from_coo_size(num_rows, num_columns, num_nonzeros,
                                  rowidx, colidx, separate_diagonal)
       IN  /\ rowptr' = s.rowptr
           /\ rowsize' = s.rowsize
           /\ ellsize' = s.ellsize
           /\ diagsize' = s.diagsize
    /\ pc' = "fill"
    /\ UNCHANGED << inputs, aux, csrstate, ellcolidx, ella, ellad, stray, x, y, y0, repeat >>

EllConvFill ==
    /\ prog = "ell_from_coo" /\ pc = "fill"
    /\ LET s == ell_from_coo(num_rows, num_columns, num_nonzeros, rowidx, colidx, a,
                             rowsize, Arr(ellsize, 0), Arr(ellsize, 0),
                             EllInitDiagonal(diagsize), separate_diagonal, sort_rows)
       IN  /\ rowptr' = s.rowptr
           /\ ellcolidx' = s.ellcolidx
           /\ ella' = s.ella
           /\ ellad' = s.ellad
           /\ stray' = s.stray
    /\ pc' = "vectors"
    /\ UNCHANGED << inputs, aux, csrstate, ellsize, rowsize, diagsize, x, y, y0, repeat >>

EllConvVectors ==
    /\ prog = "ell_from_coo" /\ pc = "vectors"
    /\ x' = InitX(xfile, num_columns)
    /\ y' = Arr(num_rows, 0)
    /\ y0' = y'
    /\ pc' = "loop"
    /\ UNCHANGED << inputs, aux, csrstate, ellstate, rowptr, diagsize, repeat >>

EllConvMultiply ==
    /\ prog = "ell_from_coo" /\ pc = "loop"
    /\ y' = IF separate_diagonal
            THEN ellgemvsd(num_rows, y, x, rowsize, ellcolidx, ella, ellad)
            ELSE ellgemv(num_rows, y, x, rowsize, ellcolidx, ella)
    /\ repeat' = 1
    /\ pc' = "exit"
    /\ UNCHANGED << ellframe >>

NextEllConv ==
    \/ EllConvSize
    \/ EllConvFill
    \/ EllConvVectors
    \/ EllConvMultiply

SpecEllConv == InitEllConv /\ [][NextEllConv]_vars

\* the entries of the coordinate matrix that ell_from_coo stores in row i
EllStoredOf(i) ==
    { k \in 0..(num_nonzeros-1) :
        rowidx[k] = i + 1 /\ ~(separate_diagonal /\ rowidx[k] = colidx[k]) }

EllConverted == prog = "ell_from_coo" /\ pc \in { "vectors", "loop", "exit" }

\* what the slots l >= first of row i add to y[i]
RECURSIVE PaddingSum(_, _)
PaddingSum(i, l) ==
    IF l >= rowsize THEN 0
    ELSE Add(Mul(ella[i * rowsize + l], At(xfile, ellcolidx[i * rowsize + l])),
             PaddingSum(i, l + 1))

\* C12: after ell_from_coo with the rowsize that ell_from_coo_size computed
\* for the same separate_diagonal, every slot of row i from the number of
\* entries stored for row i onwards holds the column min(i, num_columns-1)
\* and the value 0, every column index lies in [0, num_columns), and the
\* padding adds zero to y.
C12_EllPadding ==
    EllConverted =>
        /\ \A i \in 0..(num_rows-1) : \A l \in 0..(rowsize-1) :
              l >= Cardinality(EllStoredOf(i)) =>
                  /\ ellcolidx[i * rowsize + l] = Min(i, num_columns - 1)
                  /\ ella[i * rowsize + l] = 0
        /\ \A k \in DOMAIN ellcolidx : ellcolidx[k] \in 0..(num_columns-1)
        /\ \A i \in 0..(num_rows-1) : PaddingSum(i, Cardinality(EllStoredOf(i))) = 0

----------------------------------------------------------------------------
(* csrspmv with --sort-rows, on matrices whose rows have up to SortNnz
   entries: the conversion steps of main, ending with the rowsort call
   inside csr_from_coo *)

SortNnz == 36
SortCols == 37
SortDim == 5

SortStrides == { 1, 3, 7, 36 }

\* n entries; the first 'split' of them lie in row 1 and the others in the
\* last row; the columns run through 1..nc in steps of 'stride'; entry k has
\* the value k+1
SortMatrix(nr, nc, n, split, stride) ==
    [num_rows |-> nr, num_columns |-> nc, num_nonzeros |-> n,
     rowidx |-> [k \in 0..(n-1) |-> IF k < split THEN 1 ELSE nr],
     colidx |-> [k \in 0..(n-1) |-> ((k * stride + 2) % nc) + 1],
     a      |-> [k \in 0..(n-1) |-> k + 1]]

SortMatrices ==
    { SortMatrix(d[1], d[2], n, split, stride) :
        d \in { << 1, SortCols >>, << 2, SortCols >>, << SortDim, SortDim >> },
        n \in 0..SortNnz, split \in { 0, 3 }, stride \in SortStrides }

InitCsrSort ==
    /\ prog = "csrspmv"
    /\ pc = "size"
    /\ \E m \in SortMatrices :
          /\ num_rows = m.num_rows
          /\ num_columns = m.num_columns
          /\ num_nonzeros = m.num_nonzeros
          /\ rowidx = m.rowidx
          /\ colidx = m.colidx
          /\ a = m.a
    /\ symmetry \in { "general", "symmetric" }
    /\ separate_diagonal \in BOOLEAN
    /\ sort_rows = TRUE
    /\ nthreads = 1
    /\ partition = "rows"
    /\ precompute_partition = FALSE
    /\ rows_per_thread = << >>
    /\ xfile = << >>
    /\ yfile = << >>
    /\ InitState

NextCsrSort ==
    \/ CsrFromCooSize
    \/ PlanPartition
    \/ CsrFromCoo

SpecCsrSort == InitCsrSort /\ [][NextCsrSort]_vars

\* csr_from_coo has returned in a run with --sort-rows
CsrSorted == prog = "csrspmv" /\ pc = "vectors" /\ sort_rows

\* the (column, value) pairs of row i in the layout L
RowPairsOf(L, i) ==
    { << L.csrcolidx[k], L.csra[k] >> : k \in L.rowptr[i]..(L.rowptr[i+1]-1) }

\* C13: after csr_from_coo with sort_rows set, every row has its column
\* indices in nondecreasing order and the same (column, value) pairs as
\* before sorting (the values of the entries are pairwise different, so the
\* pairs of a row form a set), and rowptr is the one of the unsorted layout.
C13_CsrRowsSorted ==
    CsrSorted =>
        LET before == CsrLayoutOf(symmetry, separate_diagonal)
            after  == [rowptr |-> rowptr, csrcolidx |-> csrcolidx, csra |-> csra]
        IN  /\ rowptr = before.rowptr
            /\ DOMAIN csrcolidx = DOMAIN before.csrcolidx
            /\ \A i \in 0..(num_rows-1) :
                  /\ \A k \in (rowptr[i]+1)..(rowptr[i+1]-1) :
                        csrcolidx[k-1] <= csrcolidx[k]
                  /\ RowPairsOf(after, i) = RowPairsOf(before, i)
                  /\ Cardinality(RowPairsOf(after, i)) = rowptr[i+1] - rowptr[i]

\* a row of more than two blocks whose last block is partial and which was
\* not in order before sorting, and a second nonempty row that was in disorder
C13_Witness ==
    /\ CsrSorted
    /\ LET before == CsrLayoutOf(symmetry, separate_diagonal)
       IN  /\ \E i \in 0..(num_rows-1) :
                 /\ rowptr[i+1] - rowptr[i] > 2 * threshold
                 /\ (rowptr[i+1] - rowptr[i]) % threshold # 0
                 /\ \E k \in (rowptr[i]+1)..(rowptr[i+1]-1) :
                       before.csrcolidx[k-1] > before.csrcolidx[k]
           /\ \E i \in 0..(num_rows-1) :
                 /\ rowptr[i+1] - rowptr[i] \in 2..threshold
                 /\ \E k \in (rowptr[i]+1)..(rowptr[i+1]-1) :
                       before.csrcolidx[k-1] > before.csrcolidx[k]

----------------------------------------------------------------------------
(* ellspmv with --sort-rows *)

\* the (column, value) pairs in the first n slots of row i of the layout in use
EllRowPairs(i, n) ==
    { << ellcolidx[i * rowsize + l], ella[i * rowsize + l] >> : l \in 0..(n-1) }

\* C14: in a run of ellspmv with --sort-rows every row holds its stored
\* nonzeros in the leading slots in ascending column order, they are the
\* entries of that row of the file with their values, and y is the y of
\* the run without --sort-rows.
C14_EllRowsSorted ==
    (/\ BetweenCalls
     /\ prog = "ellspmv" /\ sort_rows) =>
        /\ \A i \in 0..(num_rows-1) :
              LET n == Cardinality(EllStoredOf(i))
              IN  /\ \A l \in 1..(n-1) :
                        ellcolidx[i * rowsize + l - 1] <= ellcolidx[i * rowsize + l]
                  /\ EllRowPairs(i, n) =
                        { << colidx[k] - 1, a[k] >> : k \in EllStoredOf(i) }
        /\ y = EllTimes(EllLayoutOf(separate_diagonal, FALSE), separate_diagonal,
                        y0, repeat)

----------------------------------------------------------------------------
(* Coordinate entries outside the matrix: the reader stores the indices of
   the file as they are, and main hands them to csr_from_coo_size or
   ell_from_coo_size *)

IndexDim == 2
IndexNnz == 2

\* matrices whose entries have row indices in 0..num_rows+1 and column
\* indices in 0..num_columns+1
IndexMatrices ==
    UNION { UNION { UNION {
        { [num_rows |-> nr, num_columns |-> nc, num_nonzeros |-> n,
           rowidx |-> ri, colidx |-> ci, a |-> [k \in 0..(n-1) |-> 2^k]]
          : ri \in [0..(n-1) -> 0..(nr+1)], ci \in [0..(n-1) -> 0..(nc+1)] }
        : n \in 0..IndexNnz } : nc \in 1..IndexDim } : nr \in 1..IndexDim }

InitIndex ==
    /\ prog \in { "csrspmv", "ellspmv" }
    /\ pc = "size"
    /\ \E m \in IndexMatrices :
          /\ num_rows = m.num_rows
          /\ num_columns = m.num_columns
          /\ num_nonzeros = m.num_nonzeros
          /\ rowidx = m.rowidx
          /\ colidx = m.colidx
          /\ a = m.a
    /\ symmetry \in (IF prog = "csrspmv" THEN { "general", "symmetric" } ELSE { "general" })
    /\ separate_diagonal \in BOOLEAN
    /\ sort_rows = FALSE
    /\ nthreads = 1
    /\ partition = "rows"
    /\ precompute_partition = FALSE
    /\ rows_per_thread = << >>
    /\ xfile = << >>
    /\ yfile = << >>
    /\ InitState

\* the elements of rowptr that the counting loop of csr_from_coo_size
\* reads and writes for the entry (r, c)
CsrSizeAccess(path, r, c) ==
    CASE path = 1 -> IF r # c THEN { r, c } ELSE { }
      [] path = 2 -> IF r # c THEN { r, c } ELSE { r }
      [] path = 3 -> IF r # c THEN { r } ELSE { }
      [] OTHER    -> { r }

\* the same for the counting loop of ell_from_coo_size
EllSizeAccess(sepdiag, r, c) == IF ~sepdiag \/ r # c THEN { r } ELSE { }

\* rowptr has num_rows+1 elements
RowptrAllocation == 0..num_rows

\* the call of csr_from_coo_size.  With every access inside rowptr it
\* returns 0 with the sizes; an access outside rowptr is undefined
\* behaviour: the process is killed, or the call returns 0 with memory
\* in a state that is not modelled.
IndexCsrSize ==
    /\ prog = "csrspmv" /\ pc = "size"
    /\ LET path == ConversionPath(symmetry, num_rows, num_columns, separate_diagonal)
           outside == \E k \in 0..(num_nonzeros-1) :
                         ~(CsrSizeAccess(path, rowidx[k], colidx[k]) \subseteq RowptrAllocation)
       IN  IF outside
           THEN /\ oob' = TRUE
                /\ pc' \in { "killed", "undefined" }
                /\ UNCHANGED << rowptr, csrsize, rowsizemin, rowsizemax, diagsize >>
           ELSE LET s == csr_from_coo_size(symmetry, num_rows, num_columns, num_nonzeros,
                                           rowidx, colidx, separate_diagonal)
                IN  /\ rowptr' = s.rowptr
                    /\ csrsize' = s.csrsize
                    /\ rowsizemin' = s.rowsizemin
                    /\ rowsizemax' = s.rowsizemax
                    /\ diagsize' = s.diagsize
                    /\ oob' = FALSE
                    /\ pc' = "plan"
    /\ err' = 0
    /\ UNCHANGED << inputs, warmup, args_warmup, args_repeat, thr, ellstate,
                    startrows, endrows, csrcolidx, csra, csrad, x, y, y0, repeat, tpc >>

\* the call of ell_from_coo_size, in the same way
IndexEllSize ==
    /\ prog = "ellspmv" /\ pc = "size"
    /\ LET outside == \E k \in 0..(num_nonzeros-1) :
                         ~(EllSizeAccess(separate_diagonal, rowidx[k], colidx[k])
                             \subseteq RowptrAllocation)
       IN  IF outside
           THEN /\ oob' = TRUE
                /\ pc' \in { "killed", "undefined" }
                /\ UNCHANGED << rowptr, rowsize, ellsize, diagsize >>
           ELSE LET s == ell_from_coo_size(num_rows, num_columns, num_nonzeros,
                                           rowidx, colidx, separate_diagonal)
                IN  /\ rowptr' = s.rowptr
                    /\ rowsize' = s.rowsize
                    /\ ellsize' = s.ellsize
                    /\ diagsize' = s.diagsize
                    /\ oob' = FALSE
                    /\ pc' = "fill"
    /\ err' = 0
    /\ UNCHANGED << inputs, warmup, args_warmup, args_repeat, thr, csrstate,
                    ellcolidx, ella, ellad, stray, x, y, y0, repeat >>

NextIndex ==
    \/ IndexCsrSize
    \/ IndexEllSize

SpecIndex == InitIndex /\ [][NextIndex]_vars

\* C15: when an entry has a row index outside [1, num_rows] or a column
\* index outside [1, num_columns], the conversion reports an error to its
\* caller and accesses nothing outside the arrays.
C15_IndexValidation ==
    (/\ pc # "size"
     /\ \E k \in 0..(num_nonzeros-1) :
           rowidx[k] \notin 1..num_rows \/ colidx[k] \notin 1..num_columns) =>
        /\ pc \notin { "killed", "undefined" }
        /\ err # 0
        /\ ~oob


----------------------------------------------------------------------------
(* The policy of the explicit row partition *)

\* the sum of the first n numbers of the list --rows-per-thread gives
RECURSIVE ListSum(_, _)
ListSum(list, n) == IF n = 0 THEN 0 ELSE list[n] + ListSum(list, n - 1)

\* main is past the planner of a run with a --rows-per-thread list
ExplicitPlanned ==
    /\ prog = "csrspmv" /\ partition = "rows" /\ rows_per_thread # << >>
    /\ pc \notin { "size", "plan" }

\* C16: for every --rows-per-thread list and every thread count, a list whose
\* sum exceeds num_rows aborts the run before the CSR fill and before any
\* multiply, and a list whose sum is less than num_rows lets the run continue.
C16_RowPartitionPolicy ==
    ExplicitPlanned =>
        /\ ListSum(rows_per_thread, Len(rows_per_thread)) > num_rows => pc = "abort"
        /\ ListSum(rows_per_thread, Len(rows_per_thread)) < num_rows => pc # "abort"


----------------------------------------------------------------------------
(* The warmup loop: main runs args.warmup iterations of the loop of kernel
   calls on y before the repeat loop runs args.repeat iterations on the same
   y.  The kernels of the row partitions and of ellspmv are deterministic, so
   each iteration is one step; the warmup loop ends at any count up to
   MaxWarmup. *)

MaxWarmup == 2

InitWarmup == Init /\ partition = "rows"

\* what one call of the kernel main selects leaves in y
KernelCall(yv) ==
    IF prog = "csrspmv"
    THEN IF CsrKernel(partition, rows_per_thread, separate_diagonal) = "csrgemvsd"
         THEN csrgemvsd(num_rows, yv, x, rowptr, csrcolidx, csra, csrad)
         ELSE IF CsrKernel(partition, rows_per_thread, separate_diagonal) = "csrgemv"
         THEN csrgemv(num_rows, yv, x, rowptr, csrcolidx, csra)
         ELSE csrgemvrp(yv, x, rowptr, csrcolidx, csra, diagsize, csrad,
                        startrows, endrows, nthreads)
    ELSE IF EllKernel(separate_diagonal, rowsize) = "ellgemvsd"
         THEN ellgemvsd(num_rows, yv, x, rowsize, ellcolidx, ella, ellad)
         ELSE ellgemv(num_rows, yv, x, rowsize, ellcolidx, ella)

\* one iteration of the warmup loop, before the first iteration of the repeat loop
WarmupCall ==
    /\ pc = "loop" /\ repeat = 0 /\ warmup < MaxWarmup
    /\ y' = KernelCall(y)
    /\ warmup' = warmup + 1
    /\ UNCHANGED << inputs, err, oob, args_warmup, args_repeat, thr, csrstate, ellstate,
                    rowptr, diagsize, x, y0, repeat, pc >>

NextWarmup ==
    \/ CsrFromCooSize
    \/ PlanPartition
    \/ CsrFromCoo
    \/ CsrVectors
    \/ EllFromCooSize
    \/ EllFromCoo
    \/ EllVectors
    \/ WarmupCall
    \/ CallCsrGemv
    \/ CallCsrGemvSd
    \/ CallCsrGemvRp
    \/ CsrExit
    \/ CallEllGemv
    \/ CallEllGemvSd
    \/ EllExit

SpecWarmup == InitWarmup /\ [][NextWarmup]_vars

\* y after n calls of the kernel from yv: the run without warmup iterations
RECURSIVE KernelTimes(_, _)
KernelTimes(yv, n) == IF n = 0 THEN yv ELSE KernelCall(KernelTimes(yv, n - 1))

\* C17: whatever the number of warmup iterations, the y the driver ends with
\* after r iterations of the repeat loop is the y it ends with from the same
\* matrix, x and initial y when no warmup iteration is run.
C17_WarmupDiscarded ==
    (pc = "exit" /\ warmup >= 1) => y = KernelTimes(y0, repeat)


----------------------------------------------------------------------------
(* The two loops of main, thread by thread.  Each thread of the parallel
   region runs the loop with its own counter and its own priverr, waits at
   the barriers of main and at the barrier its kernel ends with, and reads and
   writes the shared err.  The matrix has no entries, or entries of value 0
   only, and y is not read from a file, so the kernels leave y as it is and a
   thread's part of a kernel is one step.  The kernels of this build return 0; the
   loops are written for any return code, and here a kernel returns any code
   of ReturnCodes to each thread. *)

DriverThreads == 3
DriverWarmup == 1
DriverRepeat == 2
MaxCode == 2

ReturnCodes == 0..MaxCode

\* no value of err read yet in this iteration
NoCode == 0 - 1

\* the row width of the fixed-width kernel: if (rowsize != 16) return EINVAL;
FastWidth == 16

\* the 1 x 1 matrix without entries
EmptyMatrix ==
    [num_rows |-> 1, num_columns |-> 1, num_nonzeros |-> 0,
     rowidx |-> << >>, colidx |-> << >>, a |-> << >>]

\* a row of FastWidth entries off the diagonal, all of value 0: the
\* matrix that makes ellspmv select ellgemv16sd and leaves y as it is
WideMatrix ==
    [num_rows |-> 1, num_columns |-> FastWidth + 1, num_nonzeros |-> FastWidth,
     rowidx |-> [k \in 0..(FastWidth-1) |-> 1],
     colidx |-> [k \in 0..(FastWidth-1) |-> k + 2],
     a |-> [k \in 0..(FastWidth-1) |-> 0]]

InitDriver ==
    /\ prog \in { "csrspmv", "ellspmv" }
    /\ pc = "size"
    /\ \E m \in (IF prog = "ellspmv" THEN { EmptyMatrix, WideMatrix }
                 ELSE { EmptyMatrix }) :
          /\ num_rows = m.num_rows
          /\ num_columns = m.num_columns
          /\ num_nonzeros = m.num_nonzeros
          /\ rowidx = m.rowidx
          /\ colidx = m.colidx
          /\ a = m.a
    /\ symmetry = "general"
    /\ separate_diagonal \in BOOLEAN
    /\ sort_rows = FALSE
    /\ partition \in (IF prog = "csrspmv" THEN { "rows", "nonzeros" } ELSE { "rows" })
    /\ precompute_partition = FALSE
    /\ rows_per_thread \in (IF prog = "csrspmv" /\ partition = "rows"
                            THEN { << >>, << 1 >> } ELSE { << >> })
    /\ nthreads \in 1..DriverThreads
    /\ xfile = << >> /\ yfile = << >>
    /\ rowptr = << >>
    /\ csrsize = 0 /\ rowsizemin = 0 /\ rowsizemax = 0 /\ diagsize = 0
    /\ startrows = << >> /\ endrows = << >>
    /\ csrcolidx = << >> /\ csra = << >> /\ csrad = << >>
    /\ ellsize = 0 /\ rowsize = 0
    /\ ellcolidx = << >> /\ ella = << >> /\ ellad = << >>
    /\ stray = FALSE
    /\ x = << >> /\ y = << >> /\ y0 = << >>
    /\ repeat = 0
    /\ tpc = << >>
    /\ err = 0
    /\ oob = FALSE
    /\ warmup = 0
    /\ args_warmup \in 0..DriverWarmup
    /\ args_repeat \in 0..DriverRepeat
    /\ thr = << >>

\* the barriers of main without the one between the timer and the kernel
BarriersUntimed(prg, loop) ==
    IF prg = "csrspmv"
    THEN IF loop = "warmup"
         THEN [top |-> 2658, timer |-> 0, kernel |-> 2690, reduce |-> 2694,
               print |-> 2709, end |-> 2720]
         ELSE [top |-> 2749, timer |-> 0, kernel |-> 2781, reduce |-> 2785,
               print |-> 2800, end |-> 2811]
    ELSE IF loop = "warmup"
         THEN [top |-> 0, timer |-> 0, kernel |-> 1763, reduce |-> 1766,
               print |-> 1781, end |-> 1793]
         ELSE [top |-> 0, timer |-> 0, kernel |-> 1838, reduce |-> 1841,
               print |-> 1856, end |-> 1868]

\* the lines of the barriers of a loop of main; 0 where the loop has none
Barriers(prg, loop) ==
    IF prg = "csrspmv"
    THEN IF loop = "warmup"
         THEN [top |-> 2658, timer |-> 2667, kernel |-> 2690, reduce |-> 2694,
               print |-> 2709, end |-> 2720]
         ELSE [top |-> 2749, timer |-> 2758, kernel |-> 2781, reduce |-> 2785,
               print |-> 2800, end |-> 2811]
    ELSE IF loop = "warmup"
         THEN [top |-> 0, timer |-> 0, kernel |-> 1763, reduce |-> 1766,
               print |-> 1781, end |-> 1793]
         ELSE [top |-> 0, timer |-> 0, kernel |-> 1838, reduce |-> 1841,
               print |-> 1856, end |-> 1868]

\* the kernel the loops call
DriverKernel ==
    IF prog = "csrspmv"
    THEN CsrKernel(partition, rows_per_thread, separate_diagonal)
    ELSE EllKernel(separate_diagonal, rowsize)

\* the line of the barrier a kernel ends with: the end of its omp for, or
\* its omp barrier
KernelBarrier(kernel, dsz) ==
    IF kernel = "csrgemv" THEN 1551
    ELSE IF kernel = "csrgemvsd" THEN 1581
    ELSE IF kernel = "csrgemvrp" THEN (IF dsz > 0 THEN 1617 ELSE 1626)
    ELSE IF kernel = "csrgemvnz" THEN (IF dsz > 0 THEN 1704 ELSE 1708)
    ELSE IF kernel = "ellgemvsd" THEN 1163
    ELSE IF kernel = "ellgemv16sd" THEN 1191
    ELSE 1136

LoopCount(loop) == IF loop = "warmup" THEN args_warmup ELSE args_repeat

\* the same without the test of err
WritesAnyway(e, t, p, priverr) == t = p /\ priverr # 0

\* if (t == omp_get_thread_num() && !err && priverr)
Writes(e, t, p, priverr) == t = p /\ e = 0 /\ priverr # 0

\* a thread leaving on its own return code
LeavesPrivately(e, priverr) == priverr # 0

\* if (err) break, for a thread that reads e from err
Leaves(e, priverr) == e # 0

driverframe == << inputs, oob, warmup, args_warmup, args_repeat, csrstate, ellstate,
                  rowptr, diagsize, x, y, y0, repeat >>

\* thread p is at step s of the loop, not waiting
Running(p, s) == pc = "loop" /\ thr # << >> /\ thr[p].step = s /\ thr[p].bar = 0

\* #pragma omp parallel: the threads start the warmup loop, in a run with
\* args.verbose > 0 or without
DriverStart ==
    /\ pc = "loop" /\ thr = << >>
    /\ \E v \in BOOLEAN :
          thr' = [p \in 0..(nthreads-1) |->
                     [loop |-> "warmup", repeat |-> 0, step |-> "test", bar |-> 0,
                      t |-> 0, priverr |-> 0, err0 |-> 0, wrote |-> FALSE,
                      seen |-> NoCode, verbose |-> v, t0 |-> FALSE, t1 |-> FALSE]]
    /\ UNCHANGED << driverframe, err, pc >>

\* repeat < args.warmup, repeat < args.repeat: into the body, or out of the loop
ThreadTest(p) ==
    /\ Running(p, "test")
    /\ thr' = [thr EXCEPT ![p] =
                  IF thr[p].repeat < LoopCount(thr[p].loop)
                  THEN [@ EXCEPT !.bar = Barriers(prog, thr[p].loop).top,
                                 !.t0 = FALSE, !.t1 = FALSE,
                                 !.step = "timer"]
                  ELSE [@ EXCEPT !.bar = Barriers(prog, thr[p].loop).end,
                                 !.step = "leave"]]
    /\ UNCHANGED << driverframe, err, pc >>

\* the master thread of a verbose run stores t0; in csrspmv every thread
\* goes to the next barrier
ThreadTimer(p) ==
    /\ Running(p, "timer")
    /\ thr' = [thr EXCEPT ![p] = [@ EXCEPT !.t0 = (p = 0 /\ thr[p].verbose),
                                           !.bar = Barriers(prog, thr[p].loop).timer,
                                           !.step = "kernel"]]
    /\ UNCHANGED << driverframe, err, pc >>

\* thread p runs its part of the kernel up to the barrier the kernel ends with
ThreadKernel(p) ==
    /\ Running(p, "kernel")
    /\ thr' = [thr EXCEPT ![p] =
                  [@ EXCEPT !.priverr = IF prog = "csrspmv" THEN 0 ELSE @,
                            !.bar = KernelBarrier(DriverKernel, diagsize),
                            !.step = "return"]]
    /\ UNCHANGED << driverframe, err, pc >>

\* the kernel returns a code to thread p, which goes to the barrier before
\* the reduction loop
ThreadReturn(p) ==
    /\ Running(p, "return")
    /\ \E code \in ReturnCodes :
          thr' = [thr EXCEPT ![p] =
                     [@ EXCEPT !.priverr = code, !.err0 = err, !.seen = NoCode,
                               !.t = 0,
                               !.bar = Barriers(prog, thr[p].loop).kernel,
                               !.step = IF prog = "csrspmv" THEN "stop"
                                        ELSE "reduce"]]
    /\ UNCHANGED << driverframe, err, pc >>

\* csrspmv: clock_gettime(CLOCK_MONOTONIC, &t1), by every thread
ThreadStop(p) ==
    /\ Running(p, "stop")
    /\ thr' = [thr EXCEPT ![p] = [@ EXCEPT !.t1 = TRUE, !.step = "reduce"]]
    /\ UNCHANGED << driverframe, err, pc >>

\* one iteration of the reduction loop: thread t may set err, every thread
\* goes to the barrier
ThreadReduce(p) ==
    /\ Running(p, "reduce") /\ thr[p].t < nthreads
    /\ err' = IF Writes(err, thr[p].t, p, thr[p].priverr) THEN thr[p].priverr ELSE err
    /\ thr' = [thr EXCEPT ![p] =
                  [@ EXCEPT !.wrote = Writes(err, thr[p].t, p, thr[p].priverr),
                            !.t = @ + 1,
                            !.bar = Barriers(prog, thr[p].loop).reduce]]
    /\ UNCHANGED << driverframe, pc >>

\* the reduction loop has ended: if (err) break
ThreadCheck(p) ==
    /\ Running(p, "reduce") /\ thr[p].t = nthreads
    /\ thr' = [thr EXCEPT ![p] =
                  IF Leaves(err, @.priverr)
                  THEN [@ EXCEPT !.seen = err,
                                 !.bar = Barriers(prog, thr[p].loop).end,
                                 !.step = "leave"]
                  ELSE [@ EXCEPT !.seen = err,
                                 !.bar = Barriers(prog, thr[p].loop).print,
                                 !.step = "next"]]
    /\ UNCHANGED << driverframe, err, pc >>

\* the master thread of a verbose run prints the timing, in ellspmv after
\* it has stored t1; every thread increments its counter
ThreadNext(p) ==
    /\ Running(p, "next")
    /\ thr' = [thr EXCEPT ![p] =
                  [@ EXCEPT !.t1 = IF prog = "ellspmv"
                                   THEN (p = 0 /\ thr[p].verbose) ELSE @,
                            !.repeat = @ + 1, !.seen = NoCode,
                            !.step = "test"]]
    /\ UNCHANGED << driverframe, err, pc >>

\* after the end of a parallel region: the repeat loop after the warmup
\* loop, the rest of main after the repeat loop
ThreadLeave(p) ==
    /\ Running(p, "leave")
    /\ thr' = [thr EXCEPT ![p] =
                  IF @.loop = "warmup"
                  THEN [@ EXCEPT !.loop = "repeat", !.repeat = 0, !.seen = NoCode,
                                 !.step = "test"]
                  ELSE [@ EXCEPT !.step = "done"]]
    /\ UNCHANGED << driverframe, err, pc >>

\* a barrier that lets a waiting thread go on without the others
BarrierOpens ==
    /\ pc = "loop" /\ thr # << >>
    /\ \E p \in 0..(nthreads-1) :
          /\ thr[p].bar # 0
          /\ thr' = [thr EXCEPT ![p] = [@ EXCEPT !.bar = 0, !.wrote = FALSE]]
    /\ UNCHANGED << driverframe, err, pc >>

\* every thread of the team waits at one and the same barrier: all go on
BarrierRelease ==
    /\ pc = "loop" /\ thr # << >>
    /\ \A p \in 0..(nthreads-1) : thr[p].bar # 0 /\ thr[p].bar = thr[0].bar
    /\ thr' = [p \in 0..(nthreads-1) |-> [thr[p] EXCEPT !.bar = 0, !.wrote = FALSE]]
    /\ UNCHANGED << driverframe, err, pc >>

\* both parallel regions have ended
DriverExit ==
    /\ pc = "loop" /\ thr # << >>
    /\ \A p \in 0..(nthreads-1) : thr[p].step = "done"
    /\ pc' = "exit"
    /\ UNCHANGED << driverframe, err, thr >>

ThreadStep(p) ==
    \/ ThreadTest(p)
    \/ ThreadTimer(p)
    \/ ThreadKernel(p)
    \/ ThreadReturn(p)
    \/ ThreadStop(p)
    \/ ThreadReduce(p)
    \/ ThreadCheck(p)
    \/ ThreadNext(p)
    \/ ThreadLeave(p)

NextDriver ==
    \/ CsrFromCooSize
    \/ PlanPartition
    \/ CsrFromCoo
    \/ CsrVectors
    \/ EllFromCooSize
    \/ EllFromCoo
    \/ EllVectors
    \/ DriverStart
    \/ \E p \in 0..(nthreads-1) : ThreadTest(p)
    \/ \E p \in 0..(nthreads-1) : ThreadTimer(p)
    \/ \E p \in 0..(nthreads-1) : ThreadKernel(p)
    \/ \E p \in 0..(nthreads-1) : ThreadReturn(p)
    \/ \E p \in 0..(nthreads-1) : ThreadStop(p)
    \/ \E p \in 0..(nthreads-1) : ThreadReduce(p)
    \/ \E p \in 0..(nthreads-1) : ThreadCheck(p)
    \/ \E p \in 0..(nthreads-1) : ThreadNext(p)
    \/ \E p \in 0..(nthreads-1) : ThreadLeave(p)
    \/ BarrierRelease
    \/ DriverExit

\* every thread that can run does run, and a barrier all threads wait at opens
FairDriver ==
    /\ \A p \in 0..(DriverThreads-1) : WF_vars(p < nthreads /\ ThreadStep(p))
    /\ WF_vars(BarrierRelease)
    /\ WF_vars(DriverStart)
    /\ WF_vars(DriverExit)

SpecDriver == InitDriver /\ [][NextDriver]_vars /\ FairDriver


\* two threads that wait, wait at the same barrier of the same iteration
BarriersAgree ==
    thr # << >> =>
        \A p, q \in 0..(nthreads-1) :
            (thr[p].bar # 0 /\ thr[q].bar # 0) =>
                /\ thr[p].bar = thr[q].bar
                /\ thr[p].loop = thr[q].loop
                /\ thr[p].repeat = thr[q].repeat

\* C18: for every thread count, warmup count, repeat count, kernel and
\* combination of return codes, the threads meet at the same barriers in the
\* same order (those inside the kernels included), leave each loop in the same
\* iteration, and all reach the end of the parallel regions.
C18_NoBarrierDeadlock ==
    /\ []BarriersAgree
    /\ (thr # << >>) ~> (pc = "exit")

\* three threads have left a loop in its first iteration on the code of one
\* of them, from the barrier csrgemvnz ends with
C18_Witness ==
    /\ pc = "exit" /\ nthreads = DriverThreads /\ partition = "nonzeros"
    /\ args_warmup = 1 /\ args_repeat = DriverRepeat
    /\ err # 0
    /\ \E p \in 0..(nthreads-1) : thr[p].priverr = 0
    /\ \A p \in 0..(nthreads-1) : thr[p].repeat = 0

\* the return code of the lowest-numbered thread from q on that has one, or 0
RECURSIVE FirstCode(_)
FirstCode(q) ==
    IF q >= nthreads THEN 0
    ELSE IF thr[q].priverr # 0 THEN thr[q].priverr
    ELSE FirstCode(q + 1)

\* thread p has left the reduction loop and waits at the next barrier
AfterReduction(p) == thr[p].seen # NoCode /\ thr[p].bar # 0

\* C19: after the reduction loop err is what it was before if that was not 0,
\* and else the code of the lowest-numbered thread with a code other than 0
\* (0 if there is none); between two barriers at most one thread writes err;
\* the threads that decide whether to leave the loop all read the same err.
C19_ErrorReduction ==
    (pc = "loop" /\ thr # << >>) =>
        /\ \A p \in 0..(nthreads-1) :
              AfterReduction(p) =>
                  err = IF thr[p].err0 # 0 THEN thr[p].err0 ELSE FirstCode(0)
        /\ Cardinality({ p \in 0..(nthreads-1) : thr[p].wrote }) <= 1
        /\ \A p, q \in 0..(nthreads-1) :
              (thr[p].seen # NoCode /\ thr[q].seen # NoCode) =>
                  thr[p].seen = thr[q].seen

\* thread 1 of three has set err to its code, thread 0 returned 0 and
\* thread 2 another code, and all have read err after the reduction loop
C19_Witness ==
    /\ pc = "loop" /\ thr # << >> /\ nthreads = DriverThreads
    /\ thr[0].priverr = 0 /\ thr[1].priverr = 1 /\ thr[2].priverr = 2
    /\ \A p \in 0..(nthreads-1) : AfterReduction(p) /\ thr[p].err0 = 0
    /\ err = 1


----------------------------------------------------------------------------
(* csrgemvnz: the zeroing stores and the additions of the threads *)

\* the rows thread p stores 0.0 to when it enters csrgemvnz
ZeroedRows(p) ==
    { i \in 0..(num_rows-1) : MyRange(p).startrow <= i /\ i < MyRange(p).endrow }

\* the rows thread p adds a partial sum to
AddedRows(p) ==
    { i \in 0..(num_rows-1) : MyRange(p).startrow <= i /\ i <= MyRange(p).endrow }

\* C20: within one invocation of csrgemvnz, in every interleaving, no thread
\* has added a partial sum to a row that another thread has yet to store 0.0
\* to: every zeroing store to y[i] comes before every addition to y[i].
C20_ZeroBeforeAdd ==
    (prog = "csrspmv" /\ pc = "loop" /\ partition = "nonzeros") =>
        \A p, q \in 0..(nthreads-1) :
            (tpc[p] = "enter" /\ tpc[q] \in { "added", "barrier" }) =>
                ZeroedRows(p) \cap AddedRows(q) = {}


----------------------------------------------------------------------------
(* csrgemvnz: the plain and the atomic updates of y.  The function has no
   barrier before its end, so whatever a thread has yet to write in a call is
   concurrent with whatever another thread has yet to write in it. *)

\* the rows thread p adds to with a plain y[i] += yi
InteriorRows(p) ==
    { i \in 0..(num_rows-1) : MyRange(p).startrow + 1 <= i /\ i < MyRange(p).endrow }

\* the rows thread p updates with a plain y[i] += ad[i]*x[i]
DiagonalRows(p) == IF diagsize > 0 THEN StaticChunk(num_rows, nthreads, p) ELSE {}

\* the rows thread q has yet to write in this call, from where it stands
PendingRows(q) ==
    IF tpc[q] = "enter" THEN ZeroedRows(q) \cup AddedRows(q) \cup DiagonalRows(q)
    ELSE IF tpc[q] = "zeroed" THEN AddedRows(q) \cup DiagonalRows(q)
    ELSE IF tpc[q] = "added" THEN DiagonalRows(q)
    ELSE {}

\* the rows thread p has yet to write without an atomic, from where it stands
PendingPlainRows(p) ==
    IF tpc[p] \in { "enter", "zeroed" } THEN InteriorRows(p) \cup DiagonalRows(p)
    ELSE IF tpc[p] = "added" THEN DiagonalRows(p)
    ELSE {}

\* C21: within one invocation of csrgemvnz a row that a thread updates
\* without an atomic (an interior row of its range, a row of its share of the
\* diagonal pass) is a row no other thread writes concurrently.
C21_PlainRowsExclusive ==
    (prog = "csrspmv" /\ pc = "loop" /\ partition = "nonzeros") =>
        \A p, q \in 0..(nthreads-1) :
            p # q => PendingPlainRows(p) \cap PendingRows(q) = {}


----------------------------------------------------------------------------
(* The iterations of the loops of main do not overlap *)

\* the iteration in which thread record t multiplies next, or is multiplying
NextMultiply(t) ==
    IF t.step = "next" THEN [loop |-> t.loop, repeat |-> t.repeat + 1]
    ELSE IF t.loop = "warmup"
            /\ (t.step = "leave" \/ (t.step = "test" /\ t.repeat >= args_warmup))
    THEN [loop |-> "repeat", repeat |-> 0]
    ELSE [loop |-> t.loop, repeat |-> t.repeat]

\* iteration i comes before iteration j
EarlierIteration(i, j) ==
    \/ i.loop = "warmup" /\ j.loop = "repeat"
    \/ i.loop = j.loop /\ i.repeat < j.repeat

\* C22: in both loops of both drivers and for every kernel, while a thread is
\* in its part of the kernel for an iteration, no thread has a kernel call of
\* an earlier iteration before it or in progress: every write to y of the
\* earlier iterations is complete.
C22_IterationsApart ==
    (pc = "loop" /\ thr # << >>) =>
        \A p, q \in 0..(nthreads-1) :
            Running(p, "kernel") =>
                ~EarlierIteration(NextMultiply(thr[q]), NextMultiply(thr[p]))

\* ellspmv: a thread is in the kernel of the second iteration of the repeat
\* loop while another has not yet incremented its counter after the first
C22_Witness ==
    /\ pc = "loop" /\ thr # << >> /\ prog = "ellspmv" /\ nthreads = DriverThreads
    /\ DriverKernel = "ellgemv16sd"
    /\ \E p, q \in 0..(nthreads-1) :
          /\ Running(p, "kernel") /\ thr[p].loop = "repeat" /\ thr[p].repeat = 1
          /\ Running(q, "next") /\ thr[q].loop = "repeat" /\ thr[q].repeat = 0


----------------------------------------------------------------------------
(* csrgemvnz with more threads than nonzeros: csrspmv with the nonzero
   partition for up to NzThreads threads on the matrices of at most NzNnz
   entries *)

NzThreads == 3
NzNnz == 2

InitNzIndex ==
    /\ prog = "csrspmv"
    /\ pc = "size"
    /\ \E m \in { mm \in BoundedMatrices : mm.num_nonzeros <= NzNnz } :
          /\ num_rows = m.num_rows
          /\ num_columns = m.num_columns
          /\ num_nonzeros = m.num_nonzeros
          /\ rowidx = m.rowidx
          /\ colidx = m.colidx
          /\ a = m.a
    /\ symmetry \in { "general", "symmetric" }
    /\ separate_diagonal \in BOOLEAN
    /\ sort_rows = FALSE
    /\ partition = "nonzeros"
    /\ precompute_partition \in BOOLEAN
    /\ rows_per_thread = << >>
    /\ nthreads \in 1..NzThreads
    /\ xfile = << >>
    /\ yfile = ZeroFile(num_rows)
    /\ InitState

NextNzIndex ==
    \/ CsrFromCooSize
    \/ PlanPartition
    \/ CsrFromCoo
    \/ CsrVectors
    \/ \E p \in 0..(nthreads-1) : NzEnter(p)
    \/ \E p \in 0..(nthreads-1) : NzAdd(p)
    \/ \E p \in 0..(nthreads-1) : NzFinish(p)
    \/ NzReturn
    \/ CsrExit

SpecNzIndex == InitNzIndex /\ [][NextNzIndex]_vars

\* the indices at which thread p reads or writes y: the zeroing loop, the
\* first row, the interior rows and the final row
NzYAccess(p) == MyRange(p).startrow .. MyRange(p).endrow

\* the indices at which thread p reads rowptr: the two scans (unless the
\* rows are precomputed) and the bounds of the sums
NzRowptrAccess(p) ==
    LET r == MyRange(p)
    IN  (IF DOMAIN startrows # {} THEN {}
         ELSE { s + 1 : s \in 0..Min(r.startrow, num_rows - 1) })
        \cup (IF DOMAIN endrows # {} THEN {}
              ELSE { e + 1 : e \in r.startrow..Min(r.endrow, num_rows - 1) })
        \cup (IF r.startrow = r.endrow THEN {}
              ELSE { r.startrow + 1, r.endrow }
                   \cup UNION { { i, i + 1 } : i \in (r.startrow + 1)..(r.endrow - 1) })

\* the indices at which thread p reads a and colidx
NzEntryAccess(p) ==
    LET r == MyRange(p)
    IN  IF r.startrow = r.endrow THEN r.startnz .. (r.endnz - 1)
        ELSE (r.startnz .. (At(rowptr, r.startrow + 1) - 1))
             \cup UNION { At(rowptr, i) .. (At(rowptr, i + 1) - 1)
                          : i \in (r.startrow + 1)..(r.endrow - 1) }
             \cup (At(rowptr, r.endrow) .. (r.endnz - 1))

\* C23: for every CSR matrix main builds and every thread count, also more
\* threads than nonzeros and no nonzeros, csrgemvnz reads and writes y at
\* indices in [0, num_rows) only, reads rowptr at indices up to num_rows only,
\* and reads a and colidx at indices in [0, csrsize) only.
C23_NzIndexSafety ==
    (prog = "csrspmv" /\ pc = "loop" /\ partition = "nonzeros") =>
        \A p \in 0..(nthreads-1) :
            /\ NzYAccess(p) \subseteq 0..(num_rows-1)
            /\ NzRowptrAccess(p) \subseteq 0..num_rows
            /\ NzEntryAccess(p) \subseteq 0..(csrsize-1)


----------------------------------------------------------------------------
\* Diagonal separation requested for a matrix that is not square

\* the kernels that read ad[i] and x[i] for each row i: csrgemvsd does so for
\* every row, csrgemvrp and csrgemvnz only under "ad && diagsize > 0"
ReadsDiagonal(kernel, dsz) ==
    \/ kernel = "csrgemvsd"
    \/ kernel \in { "csrgemvrp", "csrgemvnz" } /\ dsz > 0

\* C24: with separate_diagonal requested on a matrix that is not square, the
\* conversion returns diagsize = 0 and the layout it builds without the option,
\* the kernel the driver selects never reads ad[i] and x[i] by row index, and
\* with a row partition y is the y of the run without the option.
C24_NonSquareSeparation ==
    (/\ prog = "csrspmv" /\ separate_diagonal /\ num_rows # num_columns
     /\ pc = "loop") =>
        /\ diagsize = 0
        /\ rowptr = CsrRowsLayout(FALSE).rowptr
        /\ ~ReadsDiagonal(CsrKernel(partition, rows_per_thread, separate_diagonal),
                          diagsize)
        /\ (BetweenCalls /\ partition = "rows") =>
               y = CsrRowsTimes(CsrRowsLayout(FALSE), FALSE, y0, repeat)


----------------------------------------------------------------------------
(* The nonzero ranges of the threads: csrspmv with the nonzero partition for
   up to TileThreads threads on two-row matrices of up to TileNnz entries *)

TileThreads == 4
TileNnz == 8

\* a general 2 x TileNnz matrix whose first split entries lie in row 1 and
\* whose other entries lie in row 2
TileMatrix(n, split) ==
    [num_rows |-> 2, num_columns |-> TileNnz, num_nonzeros |-> n,
     rowidx |-> [k \in 0..(n-1) |-> IF k < split THEN 1 ELSE 2],
     colidx |-> [k \in 0..(n-1) |-> k + 1],
     a |-> [k \in 0..(n-1) |-> 1]]

InitTiling ==
    /\ prog = "csrspmv"
    /\ pc = "size"
    /\ \E n \in 0..TileNnz : \E split \in 0..n :
          LET m == TileMatrix(n, split)
          IN  /\ num_rows = m.num_rows
              /\ num_columns = m.num_columns
              /\ num_nonzeros = m.num_nonzeros
              /\ rowidx = m.rowidx
              /\ colidx = m.colidx
              /\ a = m.a
    /\ symmetry = "general"
    /\ separate_diagonal = FALSE
    /\ sort_rows = FALSE
    /\ partition = "nonzeros"
    /\ precompute_partition \in BOOLEAN
    /\ rows_per_thread = << >>
    /\ nthreads \in 1..TileThreads
    /\ xfile = << >>
    /\ yfile = ZeroFile(num_rows)
    /\ InitState

SpecTiling == InitTiling /\ [][NextNzIndex]_vars

\* the threads whose range [startnz, endnz) holds the nonzero k
OwnersOf(k) ==
    { p \in 0..(nthreads-1) :
        Startnz(p, nthreads, csrsize) <= k /\ k < Endnz(p, nthreads, csrsize) }

\* C25: the ranges [startnz, endnz) of the threads tile the nonzeros: the
\* first starts at 0, the last ends at csrsize, each ends where the next
\* starts (clamped to csrsize), every nonzero lies in the range of exactly one
\* thread, and the precomputed rows and the kernel derive from these ranges.
C25_NonzeroRangesTile ==
    (prog = "csrspmv" /\ partition = "nonzeros" /\ pc # "size") =>
        /\ Startnz(0, nthreads, csrsize) = 0
        /\ Endnz(nthreads - 1, nthreads, csrsize) = csrsize
        /\ \A p \in 0..(nthreads-2) :
              Endnz(p, nthreads, csrsize)
                  = Min(Startnz(p + 1, nthreads, csrsize), csrsize)
        /\ \A k \in 0..(csrsize-1) : Cardinality(OwnersOf(k)) = 1
        /\ (precompute_partition /\ pc \notin { "size", "plan" }) =>
              \A p \in 0..(nthreads-1) :
                  /\ startrows[p] = ScanStartrow(num_rows, rowptr,
                                        Startnz(p, nthreads, csrsize), 0)
                  /\ endrows[p] = ScanEndrow(num_rows, rowptr,
                                        Endnz(p, nthreads, csrsize), startrows[p])
        /\ pc = "loop" =>
              \A p \in 0..(nthreads-1) :
                  /\ MyRange(p).startnz = Startnz(p, nthreads, csrsize)
                  /\ MyRange(p).endnz = Endnz(p, nthreads, csrsize)

\* four threads have added their sums over seven nonzeros: ranges of 2, 3, 2
\* and 0 nonzeros
C25_Witness ==
    /\ prog = "csrspmv" /\ partition = "nonzeros" /\ pc = "loop"
    /\ nthreads = 4 /\ csrsize = 7
    /\ \A p \in 0..3 : tpc[p] \in { "added", "barrier" }
    /\ Endnz(1, nthreads, csrsize) - Startnz(1, nthreads, csrsize) = 3
    /\ Endnz(3, nthreads, csrsize) = Startnz(3, nthreads, csrsize)


----------------------------------------------------------------------------
(* The fill of csr_from_coo: row pointers and slots written *)

\* csrcolidx[rowptr[i]] = ...; csra[rowptr[i]] = ...; rowptr[i]++;  recording
\* the slot written
ScatterSlot(s, i) ==
    [rowptr |-> Incr(s.rowptr, i), slots |-> Append(s.slots, s.rowptr[i])]

\* the slots of csrcolidx and csra written for the entry (r, c) in branch 1, 2 or 3
FillEntrySlots(path, s, r, c) ==
    CASE path = 1 -> IF r = c THEN s
                     ELSE ScatterSlot(ScatterSlot(s, r - 1), c - 1)
      [] path = 2 -> IF r # c
                     THEN ScatterSlot(ScatterSlot(s, r - 1), c - 1)
                     ELSE ScatterSlot(s, r - 1)
      [] OTHER    -> IF r = c THEN s ELSE ScatterSlot(s, r - 1)

RECURSIVE FillSlotsLoop(_, _, _, _, _, _)
FillSlotsLoop(path, nnz, ri, ci, s, k) ==
    IF k >= nnz THEN s
    ELSE Strict(s, FillSlotsLoop(path, nnz, ri, ci,
                                 FillEntrySlots(path, s, ri[k], ci[k]), k + 1))

\* the slots of csrcolidx and csra that csr_from_coo writes, in the order of
\* the writes: the fill loop of branch 1, 2 or 3, the final loop over
\* k = 0..num_nonzeros-1 of branch 4
SlotsWritten(sym, nr, nc, nnz, ri, ci, rp, sepdiag) ==
    LET path == ConversionPath(sym, nr, nc, sepdiag)
    IN  IF path \in {1, 2, 3}
        THEN FillSlotsLoop(path, nnz, ri, ci, [rowptr |-> rp, slots |-> << >>], 0).slots
        ELSE [n \in 1..nnz |-> n - 1]

\* how often the slot k is written
TimesWritten(slots, k) == Cardinality({ n \in DOMAIN slots : slots[n] = k })

\* csr_from_coo has returned to main
CsrFilled == prog = "csrspmv" /\ pc \in { "vectors", "loop", "exit" }

\* C26: on return from csr_from_coo, on each of its four paths, rowptr is the
\* array csr_from_coo_size produced (starting at 0, nondecreasing, ending at
\* csrsize), and every slot below csrsize of the column and value arrays has
\* been written exactly once and holds a column index in [0, num_columns).
C26_RowptrRestored ==
    CsrFilled =>
        LET sz    == csr_from_coo_size(symmetry, num_rows, num_columns, num_nonzeros,
                                       rowidx, colidx, separate_diagonal)
            slots == SlotsWritten(symmetry, num_rows, num_columns, num_nonzeros,
                                  rowidx, colidx, sz.rowptr, separate_diagonal)
        IN  /\ rowptr = sz.rowptr
            /\ rowptr[0] = 0
            /\ rowptr[num_rows] = csrsize
            /\ \A i \in 0..(num_rows-1) : rowptr[i] <= rowptr[i+1]
            /\ \A k \in 0..(csrsize-1) :
                  /\ TimesWritten(slots, k) = 1
                  /\ csrcolidx[k] \in 0..(num_columns-1)
            /\ \A n \in DOMAIN slots : slots[n] \in 0..(csrsize-1)

\* a symmetric 2x2 matrix with a diagonal and an off-diagonal entry has been
\* converted with the diagonal separated: two slots, one per row
C26_Witness ==
    /\ CsrFilled /\ pc = "vectors"
    /\ ConversionPath(symmetry, num_rows, num_columns, separate_diagonal) = 1
    /\ num_rows = 2 /\ num_nonzeros = 2 /\ csrsize = 2
    /\ rowptr = (0 :> 0 @@ 1 :> 1 @@ 2 :> 2)
    /\ \E k \in 0..1 : rowidx[k] = colidx[k]


----------------------------------------------------------------------------
(* The scatter of the general path: perm, then csrcolidx and csra *)

\* the entries of the file in the order of the file
FileOrder == [n \in 1..num_nonzeros |-> n - 1]

\* the entries of the file whose row is i (0-based), in the order of the file
EntriesOfRow(i) == SelectSeq(FileOrder, LAMBDA k : rowidx[k] = i + 1)

\* the (column, value) pairs in the slots of row i, in the order of the slots
StoredInRow(i) ==
    [n \in 1..(rowptr[i+1] - rowptr[i]) |->
        << csrcolidx[rowptr[i] + n - 1], csra[rowptr[i] + n - 1] >>]

\* csr_from_coo has returned from its last branch for a general matrix
GeneralFilled ==
    /\ CsrFilled /\ symmetry = "general" /\ ~sort_rows
    /\ ConversionPath(symmetry, num_rows, num_columns, separate_diagonal) = 4

\* C27: for a general matrix with the entries in any order, the last branch
\* of csr_from_coo, without sort_rows, stores in row i the entries of the
\* file whose row is i, each once, in the order in which the file has them.
C27_StableScatter ==
    GeneralFilled =>
        /\ csrsize = num_nonzeros
        /\ \A i \in 0..(num_rows-1) :
              StoredInRow(i) =
                  [n \in 1..Len(EntriesOfRow(i)) |->
                      << colidx[EntriesOfRow(i)[n]] - 1, a[EntriesOfRow(i)[n]] >>]

\* a file with an entry of row 2 before two entries of row 1, the second of
\* them in a lower column than the first
C27_Witness ==
    /\ GeneralFilled /\ pc = "vectors"
    /\ num_rows = 2 /\ num_columns = 2 /\ num_nonzeros = 3
    /\ rowidx = (0 :> 2 @@ 1 :> 1 @@ 2 :> 1)
    /\ colidx = (0 :> 1 @@ 1 :> 2 @@ 2 :> 1)
    /\ StoredInRow(0) = << << 1, 2 >>, << 0, 4 >> >>


----------------------------------------------------------------------------
(* The timer of the loops of main: the stores to t0 and t1 *)

\* threads p and q are in the same iteration of the same loop
SameIteration(p, q) == thr[p].loop = thr[q].loop /\ thr[p].repeat = thr[q].repeat

\* thread q has entered the kernel in its iteration and not returned from it
InKernel(q) == thr[q].step = "return"

\* thread q has returned from the kernel in its iteration
KernelDone(q) == thr[q].step \in { "stop", "reduce", "next", "leave" }

\* thread q has gone on from the first barrier of the reduction loop
PastFirstReduction(q) ==
    \/ thr[q].step = "reduce" /\ (thr[q].t >= 2 \/ (thr[q].t = 1 /\ thr[q].bar = 0))
    \/ thr[q].step \in { "next", "leave" }

\* the master has stored t0 and not gone on from there
TimerStarted == thr[0].t0 /\ thr[0].step = "kernel" /\ thr[0].bar # 0

\* thread p has stored t1 and not gone on from there
TimerStopped(p) ==
    thr[p].t1 /\ thr[p].step = "reduce" /\ thr[p].t = 0 /\ thr[p].bar = 0

\* C28: in the loops of csrspmv the master stores t0 (in a verbose run) when
\* every thread has reached the barrier at the top of the iteration and none
\* has entered the kernel, no thread is in the kernel of an iteration whose t0
\* is not stored, and a thread stores t1 when every thread has returned
\* from the kernel and none has gone on from the first barrier of the
\* reduction loop, which no thread passes before every thread has stored t1.
C28_CsrTimerPlacement ==
    (pc = "loop" /\ thr # << >> /\ prog = "csrspmv") =>
        /\ TimerStarted =>
              \A q \in 0..(nthreads-1) :
                  SameIteration(0, q) /\ thr[q].step \in { "timer", "kernel" }
        /\ \A q \in 0..(nthreads-1) :
              (InKernel(q) /\ thr[0].verbose) => (thr[0].t0 /\ SameIteration(0, q))
        /\ \A p, q \in 0..(nthreads-1) :
              TimerStopped(p) =>
                  SameIteration(p, q) /\ KernelDone(q) /\ ~PastFirstReduction(q)
        /\ \A p, q \in 0..(nthreads-1) :
              (PastFirstReduction(q) /\ thr[q].step = "reduce") =>
                  (thr[p].t1 /\ SameIteration(p, q))

\* a verbose run of csrspmv on three threads, in the second iteration of the
\* repeat loop: t0 and every t1 stored, a thread at the first barrier of the
\* reduction loop and a thread that has just stored t1
C28_Witness ==
    /\ pc = "loop" /\ thr # << >> /\ prog = "csrspmv" /\ nthreads = DriverThreads
    /\ thr[0].verbose /\ thr[0].t0
    /\ \A p \in 0..(nthreads-1) :
          thr[p].t1 /\ thr[p].loop = "repeat" /\ thr[p].repeat = 1
    /\ \E p, q \in 0..(nthreads-1) :
          /\ TimerStopped(p)
          /\ thr[q].step = "reduce" /\ thr[q].t = 1
                /\ thr[q].bar = Barriers(prog, "repeat").reduce


\* the master has stored t1 in ellspmv and not begun the next iteration
EllTimerStopped == thr[0].t1 /\ thr[0].step = "test"

\* C29: in the loops of ellspmv (verbose run) the threads meet at a barrier
\* before the master stores t0, no thread is in the kernel of an iteration
\* whose t0 is not stored, and the master stores t1 when every thread has
\* returned from the kernel and none has gone on from a barrier of the
\* reduction loop.
C29_EllTimerPlacement ==
    (pc = "loop" /\ thr # << >> /\ prog = "ellspmv" /\ thr[0].verbose) =>
        /\ TimerStarted =>
              \A q \in 0..(nthreads-1) :
                  SameIteration(0, q) /\ thr[q].step \in { "timer", "kernel" }
        /\ \A q \in 0..(nthreads-1) :
              InKernel(q) => (thr[0].t0 /\ SameIteration(0, q))
        /\ ~EllTimerStopped


----------------------------------------------------------------------------
(* ellgemv16sd, the kernel for rows of 16 entries *)

\* the code of "invalid argument" in errno.h
EINVAL == 22

\* a[i*16+l] * x[colidx[i*16+l]]
Term16(av, ci, xv, i, l) ==
    Mul(At(av, i * 16 + l), At(xv, At(ci, i * 16 + l)))

\* the kernel without the test of rowsize
ellgemv16sdUnchecked(nr, yv, xv, rsz, ci, av, ad) ==
    [code |-> 0,
     y |-> [i \in 0..(nr-1) |->
               Add(yv[i], Add(Mul(At(ad, i), At(xv, i)), Term16(av, ci, xv, i, 0)))]]

\* if (rowsize != 16) return EINVAL;
\* y[i] += ad[i]*x[i] + a[i*16+0]*x[colidx[i*16+0]] + ... + a[i*16+15]*x[colidx[i*16+15]];
\* return 0;
ellgemv16sd(nr, yv, xv, rsz, ci, av, ad) ==
    IF rsz # 16 THEN [code |-> EINVAL, y |-> yv]
    ELSE [code |-> 0,
          y |-> [i \in 0..(nr-1) |->
                    LET T(l) == Term16(av, ci, xv, i, l)
                    IN  Add(yv[i],
                            Add(Add(Add(Add(Add(Add(Add(Add(Add(Add(Add(Add(Add(Add(Add(Add(
                                Mul(At(ad, i), At(xv, i)),
                                T(0)), T(1)), T(2)), T(3)), T(4)), T(5)), T(6)), T(7)),
                                T(8)), T(9)), T(10)), T(11)), T(12)), T(13)), T(14)),
                                T(15)))]]

\* the code a kernel returns to main
ReturnCode(kernel, nr, yv, xv, rsz, ci, av, ad) ==
    IF kernel = "ellgemv16sd" THEN ellgemv16sd(nr, yv, xv, rsz, ci, av, ad).code
    ELSE 0

\* the kernels of the two programs
Kernels ==
    { "csrgemv", "csrgemvsd", "csrgemvrp", "csrgemvnz",
      "ellgemv", "ellgemvsd", "ellgemv16sd" }

FastRows == 2
FastColumns == 3
FastWidths == { 15, 16, 17 }

\* the ELLPACK layouts of the matrices of nr rows whose rows have rsz
\* entries each, in columns that cycle from column c on, with the values 1
\* and v in turn
FastLayout(nr, rsz, c, v) ==
    [num_rows |-> nr, rowsize |-> rsz, ellsize |-> nr * rsz,
     ellcolidx |-> [k \in 0..(nr*rsz-1) |-> (k + c) % FastColumns],
     ella |-> [k \in 0..(nr*rsz-1) |-> IF k % 2 = 0 THEN v ELSE 1]]

InitFast ==
    /\ prog = "ellspmv"
    /\ pc = "loop"
    /\ \E nr \in 1..FastRows, rsz \in FastWidths, c \in 0..(FastColumns-1), v \in 1..2 :
          LET L == FastLayout(nr, rsz, c, v)
          IN  /\ num_rows = nr
              /\ num_columns = FastColumns
              /\ num_nonzeros = L.ellsize
              /\ rowidx = [k \in 0..(L.ellsize-1) |-> (k \div rsz) + 1]
              /\ colidx = [k \in 0..(L.ellsize-1) |-> L.ellcolidx[k] + 1]
              /\ a = L.ella
              /\ ellsize = L.ellsize
              /\ rowsize = rsz
              /\ ellcolidx = L.ellcolidx
              /\ ella = L.ella
              /\ rowptr = [i \in 0..nr |-> IF i = 0 THEN 0 ELSE rsz]
    /\ diagsize = num_rows
    /\ \E d \in { 0, 3 } : ellad = [i \in 0..(num_rows-1) |-> d]
    /\ symmetry = "general"
    /\ separate_diagonal \in BOOLEAN
    /\ sort_rows = FALSE
    /\ partition = "rows"
    /\ precompute_partition = FALSE
    /\ rows_per_thread = << >>
    /\ nthreads = 1
    /\ xfile = << >>
    /\ yfile \in YFiles(num_rows)
    /\ x = [j \in 0..(num_columns-1) |-> j + 1]
    /\ y = (IF yfile = << >> THEN [i \in 0..(num_rows-1) |-> 0] ELSE yfile)
    /\ y0 = y
    /\ csrsize = 0 /\ rowsizemin = 0 /\ rowsizemax = 0
    /\ startrows = << >> /\ endrows = << >>
    /\ csrcolidx = << >> /\ csra = << >> /\ csrad = << >>
    /\ stray = FALSE
    /\ repeat = 0
    /\ tpc = << >>
    /\ err = 0
    /\ oob = FALSE
    /\ warmup = 0
    /\ args_warmup = AnyCount /\ args_repeat = AnyCount
    /\ thr = << >>

fastframe == << inputs, oob, warmup, args_warmup, args_repeat, thr, csrstate, ellstate,
                rowptr, diagsize, x, y0, repeat, tpc >>

\* ellgemv16sd called on the layout, whatever its row size
Call16sd ==
    /\ prog = "ellspmv" /\ pc = "loop"
    /\ LET r == ellgemv16sd(num_rows, y, x, rowsize, ellcolidx, ella, ellad)
       IN  /\ y' = r.y
           /\ err' = r.code
    /\ pc' = "called16sd"
    /\ UNCHANGED fastframe

\* ellgemvsd called on the layout
CallSd ==
    /\ prog = "ellspmv" /\ pc = "loop"
    /\ y' = ellgemvsd(num_rows, y, x, rowsize, ellcolidx, ella, ellad)
    /\ err' = 0
    /\ pc' = "calledsd"
    /\ UNCHANGED fastframe

\* one iteration of the loop of main: the kernel main selects, its code in err
CallSelected ==
    /\ prog = "ellspmv" /\ pc = "loop"
    /\ LET kernel == EllKernel(separate_diagonal, rowsize)
       IN  /\ y' = IF kernel = "ellgemv16sd"
                   THEN ellgemv16sd(num_rows, y, x, rowsize, ellcolidx, ella, ellad).y
                   ELSE IF kernel = "ellgemvsd"
                   THEN ellgemvsd(num_rows, y, x, rowsize, ellcolidx, ella, ellad)
                   ELSE ellgemv(num_rows, y, x, rowsize, ellcolidx, ella)
           /\ err' = ReturnCode(kernel, num_rows, y, x, rowsize, ellcolidx, ella, ellad)
    /\ pc' = "selected"
    /\ UNCHANGED fastframe

NextFast ==
    \/ Call16sd
    \/ CallSd
    \/ CallSelected

SpecFast == InitFast /\ [][NextFast]_vars

\* C30: ellgemv16sd returns EINVAL and leaves y as it is exactly when rowsize
\* is not 16; with rowsize 16 it returns 0 and leaves the y ellgemvsd leaves
\* from the same arrays; main selects it only for rowsize 16, so the kernel
\* main selects returns 0, as every other kernel does.
C30_FixedWidthPath ==
    /\ pc = "called16sd" =>
          /\ (err = EINVAL /\ y = y0) <=> rowsize # 16
          /\ rowsize = 16 =>
                /\ err = 0
                /\ y = ellgemvsd(num_rows, y0, x, rowsize, ellcolidx, ella, ellad)
    /\ pc = "selected" =>
          /\ EllKernel(separate_diagonal, rowsize) = "ellgemv16sd" => rowsize = 16
          /\ err = 0
    /\ pc \in { "loop", "called16sd", "calledsd", "selected" } =>
          \A kernel \in Kernels \ { "ellgemv16sd" } :
              ReturnCode(kernel, num_rows, y0, x, rowsize, ellcolidx, ella, ellad) = 0

\* ellgemv16sd has run on two rows of 16 entries with a diagonal and changed y
C30_Witness ==
    /\ pc = "called16sd" /\ rowsize = 16 /\ num_rows = 2
    /\ err = 0 /\ y # y0
    /\ ellad[0] = 3 /\ ella[0] = 2

\* ellgemv16sd has refused a layout of 17 entries per row
FastPathRefused ==
    /\ pc = "called16sd" /\ rowsize = 17 /\ err = EINVAL /\ y = y0

====
